---- MODULE Spec2Model ----
(***************************************************************************)
(* A model of the mahjong-rs judging pipeline:                             *)
(*   Tilesets::new -> AgariTilesets::enumerate -> judge.                   *)
(* Tiles are numbers: Suozi 1..9, Wanzi 11..19, Tongzi 21..29 and the      *)
(* seven Zipai 31..37, so that the integer order is the derived Ord of     *)
(* enum Tile.  Tiles are drawn without the red flag (equality and order    *)
(* ignore it).  Tiles (a sorted Vec<Tile>) is a sequence, Option<T> is a   *)
(* sequence of length 0 or 1 (Option<Tile> and Option<Order> use 0 for     *)
(* None).                                                                  *)
(***************************************************************************)
EXTENDS Integers, Sequences, FiniteSets, TLC

VARIABLES
    pc,         \* position in the pipeline
    input,      \* the table description handed to Tilesets::new
    agaris,     \* Vec<AgariTilesets> returned by AgariTilesets::enumerate
    cands,      \* the Judges produced by judge_all, in iteration order
    result,     \* Option<Judge> returned by judge
    mq,         \* arguments of a direct enumerate_machis call
    machis      \* its result

vars == <<pc, input, agaris, cands, result, mq, machis>>

-----------------------------------------------------------------------------
(* tile.rs *)

NoTile == 0

East == 31
South == 32
West == 33
North == 34
Bai == 35
Fa == 36
Zhong == 37

Suozi(o) == o
Wanzi(o) == 10 + o
Tongzi(o) == 20 + o

kind(t) == IF t >= 30 THEN "Zipai"
           ELSE IF t >= 20 THEN "Tongzi"
           ELSE IF t >= 10 THEN "Wanzi" ELSE "Suozi"

\* Tile::order: the rank, 0 (None) for a Zipai
order(t) == IF t >= 30 THEN 0 ELSE t % 10

\* Tile::next / Order::next: None for a Zipai and after 9
next(t) == IF order(t) = 0 \/ order(t) = 9 THEN NoTile ELSE t + 1

\* Tile::prev / Order::prev: None for a Zipai and before 1
prev(t) == IF order(t) = 0 \/ order(t) = 1 THEN NoTile ELSE t - 1

is_zhongzhang(t) == order(t) # 0 /\ order(t) # 1 /\ order(t) # 9

is_yaojiu(t) == IF order(t) = 0 THEN TRUE ELSE ~(order(t) # 1 /\ order(t) # 9)

is_feng(t) == t \in {East, South, West, North}

is_sanyuan(t) == t \in {Bai, Fa, Zhong}

is_green(t) == t = Fa \/ (kind(t) = "Suozi" /\ order(t) \in {2, 3, 4, 6, 8})

\* Tile::num_fan: +1 each for the round wind, the seat wind, a dragon
num_fan(t, ctx) ==
    IF kind(t) # "Zipai" THEN 0
    ELSE (IF t = ctx.place THEN 1 ELSE 0)
       + (IF t = ctx.player THEN 1 ELSE 0)
       + (IF is_sanyuan(t) THEN 1 ELSE 0)

-----------------------------------------------------------------------------
(* tiles.rs *)

first(tiles) == tiles[1]
last(tiles) == tiles[Len(tiles)]
middle(tiles) == tiles[2]

contains(tiles, t) == \E i \in 1..Len(tiles) : tiles[i] = t

\* position of the first element equal to t, 0 when there is none
position(tiles, t) ==
    IF contains(tiles, t)
    THEN CHOOSE i \in 1..Len(tiles) :
            tiles[i] = t /\ \A j \in 1..(i - 1) : tiles[j] # t
    ELSE 0

\* Vec::remove at a 1-based position
remove(s, i) == SubSeq(s, 1, i - 1) \o SubSeq(s, i + 1, Len(s))

\* Tiles::push: push, then sort (insertion into a sorted sequence)
RECURSIVE push(_, _)
push(tiles, t) ==
    IF tiles = <<>> THEN <<t>>
    ELSE IF last(tiles) <= t THEN Append(tiles, t)
    ELSE Append(push(SubSeq(tiles, 1, Len(tiles) - 1), t), last(tiles))

\* Tiles::new: sort
RECURSIVE sorted(_)
sorted(s) == IF s = <<>> THEN <<>> ELSE push(sorted(Tail(s)), Head(s))

RECURSIVE concat(_)
concat(ss) == IF ss = <<>> THEN <<>> ELSE Head(ss) \o concat(Tail(ss))

RECURSIVE count(_, _)
count(s, t) == IF s = <<>> THEN 0
               ELSE (IF Head(s) = t THEN 1 ELSE 0) + count(Tail(s), t)

-----------------------------------------------------------------------------
(* tilesets.rs *)

did_fulou(ts) == ts.pengs # <<>> \/ ts.chis # <<>> \/ ts.minggangs # <<>>

is_menqian(ts) == ~did_fulou(ts)

tiles_without_doras(ts) ==
    <<ts.last>> \o ts.hand \o concat(ts.pengs) \o concat(ts.chis)
        \o concat(ts.minggangs) \o concat(ts.angangs)

-----------------------------------------------------------------------------
(* agaritilesets.rs: the wait classifier *)

\* an open-or-edge test that consults every run and prefers the edge wait
liangmian_bianzhang_any(anshuns, lt, i) ==
    LET ends  == {n \in i..Len(anshuns) : lt = first(anshuns[n]) \/ lt = last(anshuns[n])}
        edges == {n \in ends : \/ order(last(anshuns[n])) = 3 /\ order(lt) = 3
                               \/ order(first(anshuns[n])) = 7 /\ order(lt) = 7}
    IN IF edges # {} THEN <<"Bianzhang">>
       ELSE IF ends # {} THEN <<"Liangmian">>
       ELSE <<>>

RECURSIVE liangmian_bianzhang_from(_, _, _)
liangmian_bianzhang_from(anshuns, lt, i) ==
    IF i > Len(anshuns) THEN <<>>
    ELSE LET shunzi == anshuns[i] IN
         IF lt # first(shunzi) /\ lt # last(shunzi)
         THEN liangmian_bianzhang_from(anshuns, lt, i + 1)
         ELSE IF order(first(shunzi)) = 0 \/ order(last(shunzi)) = 0
         THEN liangmian_bianzhang_from(anshuns, lt, i + 1)
         ELSE IF order(last(shunzi)) = 3 /\ order(lt) = 3 THEN <<"Bianzhang">>
         ELSE IF order(first(shunzi)) = 7 /\ order(lt) = 7 THEN <<"Bianzhang">>
         ELSE <<"Liangmian">>

is_liangmian_bianzhang(quetou, anshuns, ankes, lt) ==
    IF order(lt) = 0 THEN <<>> ELSE liangmian_bianzhang_from(anshuns, lt, 1)

\* a pair-wait test that looks only at the run above the winning tile
RECURSIVE danqi_yandan_above(_, _, _)
danqi_yandan_above(anshuns, lt, i) ==
    IF i > Len(anshuns) THEN <<"Danqi">>
    ELSE IF next(lt) # NoTile /\ first(anshuns[i]) = next(lt) THEN <<"Yandan">>
    ELSE danqi_yandan_above(anshuns, lt, i + 1)

RECURSIVE danqi_yandan_from(_, _, _)
danqi_yandan_from(anshuns, lt, i) ==
    IF i > Len(anshuns) THEN <<"Danqi">>
    ELSE IF next(lt) # NoTile /\ first(anshuns[i]) = next(lt) THEN <<"Yandan">>
    ELSE IF prev(lt) # NoTile /\ last(anshuns[i]) = prev(lt) THEN <<"Yandan">>
    ELSE danqi_yandan_from(anshuns, lt, i + 1)

is_danqi_yandan(quetou, anshuns, ankes, lt) ==
    IF first(quetou) # lt THEN <<>> ELSE danqi_yandan_from(anshuns, lt, 1)

is_liangmian(quetou, anshuns, ankes, lt) ==
    is_liangmian_bianzhang(quetou, anshuns, ankes, lt) = <<"Liangmian">>

\* a shanpon test that gives way to an open wait
is_shuangpeng_exclusive(quetou, anshuns, ankes, lt) ==
    /\ \E i \in 1..Len(ankes) : first(ankes[i]) = lt
    /\ ~is_liangmian(quetou, anshuns, ankes, lt)

is_shuangpeng(quetou, anshuns, ankes, lt) ==
    \E i \in 1..Len(ankes) : first(ankes[i]) = lt

is_bianzhang(quetou, anshuns, ankes, lt) ==
    is_liangmian_bianzhang(quetou, anshuns, ankes, lt) = <<"Bianzhang">>

\* a closed-wait test that accepts any tile of a run
is_qianzhang_anywhere(quetou, anshuns, ankes, lt) ==
    \E i \in 1..Len(anshuns) : contains(anshuns[i], lt)

is_qianzhang(quetou, anshuns, ankes, lt) ==
    \E i \in 1..Len(anshuns) : middle(anshuns[i]) = lt

is_danqi(quetou, anshuns, ankes, lt) ==
    is_danqi_yandan(quetou, anshuns, ankes, lt) = <<"Danqi">>

is_yandan(quetou, anshuns, ankes, lt) ==
    is_danqi_yandan(quetou, anshuns, ankes, lt) = <<"Yandan">>

\* MachiEnumerator::enumerate
enumerate_machis(quetou, anshuns, ankes, lt) ==
    (IF is_liangmian(quetou, anshuns, ankes, lt) THEN <<"Liangmian">> ELSE <<>>)
    \o (IF is_shuangpeng(quetou, anshuns, ankes, lt) THEN <<"Shuangpeng">> ELSE <<>>)
    \o (IF is_bianzhang(quetou, anshuns, ankes, lt) THEN <<"Bianzhang">> ELSE <<>>)
    \o (IF is_qianzhang(quetou, anshuns, ankes, lt) THEN <<"Qianzhang">> ELSE <<>>)
    \o (IF is_danqi(quetou, anshuns, ankes, lt) THEN <<"Danqi">> ELSE <<>>)
    \o (IF is_yandan(quetou, anshuns, ankes, lt) THEN <<"Yandan">> ELSE <<>>)

-----------------------------------------------------------------------------
(* agaritilesets.rs: the decomposer *)

\* maximal runs of equal tiles as half-open 0-based index ranges
RECURSIVE range_same_tiles_from(_, _, _)
range_same_tiles_from(tiles, start, index) ==
    IF index >= Len(tiles) THEN <<[start |-> start, end |-> Len(tiles)]>>
    ELSE IF tiles[index + 1] # tiles[start + 1]
    THEN <<[start |-> start, end |-> index]>>
            \o range_same_tiles_from(tiles, index, index + 1)
    ELSE range_same_tiles_from(tiles, start, index + 1)

range_same_tiles(tiles) ==
    IF tiles = <<>> THEN <<[start |-> 0, end |-> 0]>>
    ELSE range_same_tiles_from(tiles, 0, 1)

\* Vec::drain(range): the drained tiles and what is left
drain(tiles, r) ==
    [taken |-> SubSeq(tiles, r.start + 1, r.end),
     rest  |-> SubSeq(tiles, 1, r.start) \o SubSeq(tiles, r.end + 1, Len(tiles))]

enumerate_quetou(tiles) ==
    LET cand == SelectSeq(range_same_tiles(tiles), LAMBDA r : r.end - r.start >= 2)
    IN [i \in 1..Len(cand) |->
            LET d == drain(tiles, [start |-> cand[i].start, end |-> cand[i].start + 2])
            IN [quetou |-> d.taken, rest |-> d.rest]]

kezi_cand_ranges(tiles) ==
    LET cand == SelectSeq(range_same_tiles(tiles), LAMBDA r : r.end - r.start >= 3)
    IN [i \in 1..Len(cand) |-> [start |-> cand[i].start, end |-> cand[i].start + 3]]

\* the inner loop of enumerate_kezi for one bit set
RECURSIVE kezi_for_set(_, _, _, _, _, _)
kezi_for_set(tiles, cand, set, i, num_removed, kezis) ==
    IF i > Len(cand) THEN [kezis |-> kezis, rest |-> tiles]
    ELSE IF (set \div (2 ^ (i - 1))) % 2 # 0
    THEN LET d == drain(tiles, [start |-> cand[i].start - num_removed,
                                end   |-> cand[i].end - num_removed])
         IN kezi_for_set(d.rest, cand, set, i + 1, num_removed + 3,
                         Append(kezis, d.taken))
    ELSE kezi_for_set(tiles, cand, set, i + 1, num_removed, kezis)

\* a decomposer that takes every triplet it can
enumerate_kezi_greedy(tiles) ==
    LET cand == kezi_cand_ranges(tiles)
    IN <<kezi_for_set(tiles, cand, 2 ^ Len(cand) - 1, 1, 0, <<>>)>>

enumerate_kezi(tiles) ==
    LET cand == kezi_cand_ranges(tiles)
    IN [s \in 1..(2 ^ Len(cand)) |-> kezi_for_set(tiles, cand, s - 1, 1, 0, <<>>)]

\* the assertions at the head of enumerate_kezi
enumerate_kezi_asserts(tiles) ==
    Len(tiles) % 3 = 0 /\ Len(kezi_cand_ranges(tiles)) <= 4

\* greedy extraction of runs; None when a successor is missing
RECURSIVE extract_shunzi_loop(_, _)
extract_shunzi_loop(tiles, shunzis) ==
    IF tiles = <<>> THEN <<shunzis>>
    ELSE LET f     == Head(tiles)
             t1    == Tail(tiles)
             pmid  == IF next(f) = NoTile THEN 0 ELSE position(t1, next(f))
         IN IF pmid = 0 THEN <<>>
            ELSE LET mid   == t1[pmid]
                     t2    == remove(t1, pmid)
                     plast == IF next(mid) = NoTile THEN 0
                              ELSE position(t2, next(mid))
                 IN IF plast = 0 THEN <<>>
                    ELSE extract_shunzi_loop(remove(t2, plast),
                             Append(shunzis, sorted(<<f, mid, t2[plast]>>)))

extract_shunzi(tiles) == extract_shunzi_loop(tiles, <<>>)

-----------------------------------------------------------------------------
(* agaritilesets.rs: the exposure reconciler and AgariTilesets *)

\* position of the first group containing t, 0 when there is none
group_position(groups, t) ==
    IF \E i \in 1..Len(groups) : contains(groups[i], t)
    THEN CHOOSE i \in 1..Len(groups) :
            contains(groups[i], t) /\ \A j \in 1..(i - 1) : ~contains(groups[j], t)
    ELSE 0

NoRongming == [tag |-> "None", tiles |-> <<>>]

\* a reconciler that copies the group instead of moving it
fix_rong_an_mings_copying(tilesets, quetou, kezis_in_hand, shunzis_in_hand) ==
    LET same == [rongming |-> NoRongming, tilesets |-> tilesets,
                 kezis_in_hand |-> kezis_in_hand,
                 shunzis_in_hand |-> shunzis_in_hand, panic |-> FALSE]
        lt == tilesets.last
        ps == group_position(shunzis_in_hand, lt)
        pk == group_position(kezis_in_hand, lt)
        pg == group_position(tilesets.angangs, lt)
    IN IF tilesets.is_zimo THEN same
       ELSE IF ps # 0
       THEN [same EXCEPT !.rongming = [tag |-> "Mingshun", tiles |-> shunzis_in_hand[ps]]]
       ELSE IF pk # 0
       THEN [same EXCEPT !.rongming = [tag |-> "Mingke", tiles |-> kezis_in_hand[pk]]]
       ELSE IF pg # 0
       THEN [same EXCEPT !.rongming = [tag |-> "Mingke", tiles |-> tilesets.angangs[pg]]]
       ELSE [same EXCEPT !.panic = (tilesets.last # first(quetou))]

\* a reconciler that looks at the triplets and quads before the runs
fix_rong_an_mings_kezi_first(tilesets, quetou, kezis_in_hand, shunzis_in_hand) ==
    LET same == [rongming |-> NoRongming, tilesets |-> tilesets,
                 kezis_in_hand |-> kezis_in_hand,
                 shunzis_in_hand |-> shunzis_in_hand, panic |-> FALSE]
        lt == tilesets.last
        ps == group_position(shunzis_in_hand, lt)
        pk == group_position(kezis_in_hand, lt)
        pg == group_position(tilesets.angangs, lt)
    IN IF tilesets.is_zimo THEN same
       ELSE IF pk # 0
       THEN [same EXCEPT !.rongming = [tag |-> "Mingke", tiles |-> kezis_in_hand[pk]],
                         !.kezis_in_hand = remove(kezis_in_hand, pk)]
       ELSE IF pg # 0
       THEN [same EXCEPT !.rongming = [tag |-> "Mingke", tiles |-> tilesets.angangs[pg]],
                         !.tilesets = [tilesets EXCEPT !.angangs = remove(tilesets.angangs, pg)]]
       ELSE IF ps # 0
       THEN [same EXCEPT !.rongming = [tag |-> "Mingshun", tiles |-> shunzis_in_hand[ps]],
                         !.shunzis_in_hand = remove(shunzis_in_hand, ps)]
       ELSE [same EXCEPT !.panic = (tilesets.last # first(quetou))]

\* fix_rong_an_mings: the Rongming it returns together with the lists it
\* mutates; panic is the failed assert_eq at its end
fix_rong_an_mings(tilesets, quetou, kezis_in_hand, shunzis_in_hand) ==
    LET same == [rongming |-> NoRongming, tilesets |-> tilesets,
                 kezis_in_hand |-> kezis_in_hand,
                 shunzis_in_hand |-> shunzis_in_hand, panic |-> FALSE]
        lt == tilesets.last
        ps == group_position(shunzis_in_hand, lt)
        pk == group_position(kezis_in_hand, lt)
        pg == group_position(tilesets.angangs, lt)
    IN IF tilesets.is_zimo THEN same
       ELSE IF ps # 0
       THEN [same EXCEPT !.rongming = [tag |-> "Mingshun", tiles |-> shunzis_in_hand[ps]],
                         !.shunzis_in_hand = remove(shunzis_in_hand, ps)]
       ELSE IF pk # 0
       THEN [same EXCEPT !.rongming = [tag |-> "Mingke", tiles |-> kezis_in_hand[pk]],
                         !.kezis_in_hand = remove(kezis_in_hand, pk)]
       ELSE IF pg # 0
       THEN [same EXCEPT !.rongming = [tag |-> "Mingke", tiles |-> tilesets.angangs[pg]],
                         !.tilesets = [tilesets EXCEPT !.angangs = remove(tilesets.angangs, pg)]]
       ELSE [same EXCEPT !.panic = (tilesets.last # first(quetou))]

\* a constructor that leaves the concealed groups as they are
AgariTilesets_new_unfixed(tilesets, machi, quetou, kezis_in_hand, shunzis_in_hand) ==
    [tilesets |-> tilesets, machi |-> machi, rongming |-> NoRongming,
     quetou |-> quetou, kezis_in_hand |-> kezis_in_hand,
     shunzis_in_hand |-> shunzis_in_hand]

\* AgariTilesets::new
AgariTilesets_new(tilesets, machi, quetou, kezis_in_hand, shunzis_in_hand) ==
    LET fx == fix_rong_an_mings(tilesets, quetou, kezis_in_hand, shunzis_in_hand)
    IN [tilesets |-> fx.tilesets, machi |-> machi, rongming |-> fx.rongming,
        quetou |-> quetou, kezis_in_hand |-> fx.kezis_in_hand,
        shunzis_in_hand |-> fx.shunzis_in_hand]

\* the same body pushing one AgariTilesets per decomposition, for its first wait
agaris_of_first_wait(tilesets, quetou, kz) ==
    LET sh == extract_shunzi(kz.rest)
    IN IF sh = <<>> THEN <<>>
       ELSE LET ms == enumerate_machis(quetou, sh[1], kz.kezis, tilesets.last)
            IN IF ms = <<>> THEN <<>>
               ELSE <<AgariTilesets_new(tilesets, ms[1], quetou, kz.kezis, sh[1])>>

\* the body of the two outer loops of AgariTilesets::enumerate for one
\* (quetou, kezi set): the AgariTilesets pushed, one per wait
agaris_of(tilesets, quetou, kz) ==
    LET sh == extract_shunzi(kz.rest)
    IN IF sh = <<>> THEN <<>>
       ELSE LET ms == enumerate_machis(quetou, sh[1], kz.kezis, tilesets.last)
            IN [i \in 1..Len(ms) |->
                    AgariTilesets_new(tilesets, ms[i], quetou, kz.kezis, sh[1])]

AgariTilesets_enumerate(tilesets) ==
    LET hand == push(tilesets.hand, tilesets.last)
        qs   == enumerate_quetou(hand)
    IN concat([i \in 1..Len(qs) |->
            LET ks == enumerate_kezi(qs[i].rest)
            IN concat([j \in 1..Len(ks) |-> agaris_of(tilesets, qs[i].quetou, ks[j])])])

\* a fatal assertion of the decomposer or the reconciler fires
enumerate_panics(tilesets) ==
    LET hand == push(tilesets.hand, tilesets.last)
        qs   == enumerate_quetou(hand)
    IN \E i \in 1..Len(qs) :
          \/ ~enumerate_kezi_asserts(qs[i].rest)
          \/ LET ks == enumerate_kezi(qs[i].rest)
             IN \E j \in 1..Len(ks) :
                   \/ Len(ks[j].rest) % 3 # 0
                   \/ LET sh == extract_shunzi(ks[j].rest)
                      IN /\ sh # <<>>
                         /\ enumerate_machis(qs[i].quetou, sh[1], ks[j].kezis,
                                             tilesets.last) # <<>>
                         /\ fix_rong_an_mings(tilesets, qs[i].quetou,
                                              ks[j].kezis, sh[1]).panic

pengs(agari) == agari.tilesets.pengs
chis(agari) == agari.tilesets.chis
minggangs(agari) == agari.tilesets.minggangs
angangs(agari) == agari.tilesets.angangs
kezis_in_hand(agari) == agari.kezis_in_hand
shunzis_in_hand(agari) == agari.shunzis_in_hand
ronghe_mingke(agari) ==
    IF agari.rongming.tag = "Mingke" THEN <<agari.rongming.tiles>> ELSE <<>>
ronghe_mingshun(agari) ==
    IF agari.rongming.tag = "Mingshun" THEN <<agari.rongming.tiles>> ELSE <<>>
mingkes(agari) == pengs(agari) \o minggangs(agari) \o ronghe_mingke(agari)
\* concealed triplets that still count the one completed by ron
ankes_with_ron(agari) ==
    kezis_in_hand(agari) \o angangs(agari) \o ronghe_mingke(agari)
ankes(agari) == kezis_in_hand(agari) \o angangs(agari)
mingshuns(agari) == chis(agari) \o ronghe_mingshun(agari)
anshuns(agari) == shunzis_in_hand(agari)
kezis(agari) == mingkes(agari) \o ankes(agari)
shunzis(agari) == mingshuns(agari) \o anshuns(agari)
mianzis(agari) == kezis(agari) \o shunzis(agari)

-----------------------------------------------------------------------------
(* form.rs: Point *)

Point_new(fan) == [fan |-> fan, fu |-> 0, yiman |-> 0]
Point_with_fu(fan, fu) == [fan |-> fan, fu |-> fu, yiman |-> 0]
Point_new_manguan == Point_new(5)
Point_new_yiman == [fan |-> 13, fu |-> 0, yiman |-> 1]

is_true_yiman(p) == p.yiman > 0

\* a rounding that cuts instead of raising
floor_at(x, at) == (x \div at) * at

\* utils.rs
ceil_at(x, at) == ((x + (at - 1)) \div at) * at

\* the fan >= 5 rows of Point::value for a point that is no true limit hand
limit_value(fan, is_parent) ==
    IF fan = 5 THEN (IF is_parent THEN 12000 ELSE 8000)
    ELSE IF fan \in 6..7 THEN (IF is_parent THEN 18000 ELSE 12000)
    ELSE IF fan \in 8..10 THEN (IF is_parent THEN 24000 ELSE 16000)
    ELSE IF fan \in 11..12 THEN (IF is_parent THEN 36000 ELSE 24000)
    ELSE 1 * (IF is_parent THEN 48000 ELSE 32000)

\* the closure calc_few of Point::value
calc_few(fan, fu, is_parent) ==
    LET mul     == IF is_parent THEN 6 ELSE 4
        manguan == limit_value(Point_new_manguan.fan, is_parent)
        raw     == fu * mul * (2 ^ (fan + 2))
    IN IF raw > manguan THEN manguan ELSE ceil_at(raw, 100)

Point_value(p, is_parent) ==
    IF p.yiman = 0
    THEN IF p.fan \in 0..4
         THEN IF (p.fan = 4 /\ p.fu = 30) \/ (p.fan = 3 /\ p.fu = 60)
              THEN limit_value(Point_new_manguan.fan, is_parent)
              ELSE calc_few(p.fan, p.fu, is_parent)
         ELSE limit_value(p.fan, is_parent)
    ELSE p.yiman * (IF is_parent THEN 48000 ELSE 32000)

\* the assert!(value <= manguan) of the closure calc_few of Point::rank
Point_rank_panics(p, is_parent) ==
    /\ p.yiman = 0
    /\ p.fan \in 0..4
    /\ Point_value(p, is_parent) > Point_value(Point_new_manguan, is_parent)

\* impl Ord for Point: by fan, then by fu
Point_cmp(p, q) ==
    IF p.fan < q.fan THEN "Less"
    ELSE IF p.fan > q.fan THEN "Greater"
    ELSE IF p.fu < q.fu THEN "Less"
    ELSE IF p.fu > q.fu THEN "Greater"
    ELSE "Equal"

\* impl PartialEq for Point
Point_eq(p, q) == Point_cmp(p, q) = "Equal"

\* impl Sum for Point
RECURSIVE Point_sum(_)
Point_sum(ps) ==
    IF ps = <<>> THEN [fan |-> 0, fu |-> 0, yiman |-> 0]
    ELSE LET r == Point_sum(Tail(ps))
         IN [fan |-> Head(ps).fan + r.fan, fu |-> Head(ps).fu + r.fu,
             yiman |-> Head(ps).yiman + r.yiman]

-----------------------------------------------------------------------------
(* form.rs: Form.  A form is its variant name and its argument: the count of
   Fanpai and Dora, 1/0 for a boolean flag, 0 for a variant without one. *)

Form(name) == [name |-> name, arg |-> 0]
FormB(name, b) == [name |-> name, arg |-> IF b THEN 1 ELSE 0]
FormN(name, n) == [name |-> name, arg |-> n]

Form_point(f) ==
    IF f.name \in {"Lizhi", "Ippatsu", "Menqianqingzimohu", "Duanyaojiu", "Pinghe",
                   "Yibeikou", "Haidimoyue", "Hedilaoyu", "Lingshangkaihua",
                   "Chenggang"} THEN Point_new(1)
    ELSE IF f.name \in {"Fanpai", "Dora"} THEN Point_new(f.arg)
    ELSE IF f.name \in {"Doublelizhi", "Sanshokudoko", "Sananke", "Duiduihe",
                        "Sangangzi", "Hunlaotou"} THEN Point_new(2)
    ELSE IF f.name \in {"Sanshokudojun", "Ikkitsukan", "Hunquandaiyaojiu",
                        "Chunquandaiyaojiu"}
         THEN Point_new(IF f.arg = 1 THEN 2 ELSE 1)
    ELSE IF f.name = "Qiduizi" THEN Point_with_fu(2, 25)
    ELSE IF f.name = "Liangbeigou" THEN Point_new(3)
    ELSE IF f.name = "Hungyise" THEN Point_new(IF f.arg = 1 THEN 3 ELSE 2)
    ELSE IF f.name = "Shousangen" THEN Point_new(4)
    ELSE IF f.name = "Qingyise" THEN Point_new(IF f.arg = 1 THEN 6 ELSE 5)
    ELSE Point_new_yiman

\* Form::is_dora
is_dora(f) == f.name = "Dora"

-----------------------------------------------------------------------------
(* form.rs: the forms decided on the Tilesets alone *)

special_check_lizhi(ts) ==
    IF ts.context.lizhi = "None" THEN <<>>
    ELSE IF ts.context.lizhi = "Lizhi" THEN <<Form("Lizhi")>>
    ELSE IF ts.context.lizhi = "LizhiIppatsu" THEN <<Form("Lizhi"), Form("Ippatsu")>>
    ELSE IF ts.context.lizhi = "DoubleLizhi" THEN <<Form("Doublelizhi")>>
    ELSE <<Form("Doublelizhi"), Form("Ippatsu")>>

RECURSIVE sum_dora(_, _)
sum_dora(tiles, doras) ==
    IF tiles = <<>> THEN 0
    ELSE count(doras, Head(tiles)) + sum_dora(Tail(tiles), doras)

special_check_dora(ts) ==
    LET num_dora == sum_dora(tiles_without_doras(ts), ts.doras)
    IN IF num_dora > 0 THEN <<FormN("Dora", num_dora)>> ELSE <<>>

\* a seven-pairs check that takes four of a kind for two pairs
special_check_qiduizi_even(ts) ==
    IF did_fulou(ts) \/ ts.angangs # <<>> THEN <<>>
    ELSE LET tiles == push(ts.hand, ts.last)
         IN IF \E i \in 1..Len(tiles) : count(tiles, tiles[i]) % 2 # 0 THEN <<>>
            ELSE <<Form("Qiduizi")>>

\* the assert_eq!(tiles.len(), 14) of special_check_qiduizi
special_check_qiduizi_panics(ts) ==
    ~(did_fulou(ts) \/ ts.angangs # <<>>) /\ Len(push(ts.hand, ts.last)) # 14

special_check_qiduizi(ts) ==
    IF did_fulou(ts) \/ ts.angangs # <<>> THEN <<>>
    ELSE LET tiles == push(ts.hand, ts.last)
         IN IF \E i \in 1..Len(tiles) : count(tiles, tiles[i]) # 2 THEN <<>>
            ELSE <<Form("Qiduizi")>>

special_check_menqianqingzimohu(ts) ==
    IF ~ts.is_zimo THEN <<>>
    ELSE IF ~is_menqian(ts) THEN <<>>
    ELSE <<Form("Menqianqingzimohu")>>

special_check_duanyaojiu(ts) ==
    LET all == tiles_without_doras(ts)
    IN IF \A i \in 1..Len(all) : is_zhongzhang(all[i])
       THEN <<Form("Duanyaojiu")>> ELSE <<>>

special_check_hungyise_qingyise(ts) ==
    LET all       == tiles_without_doras(ts)
        has_zipai == \E i \in 1..Len(all) : kind(all[i]) = "Zipai"
        not_zipai == SelectSeq(all, LAMBDA t : kind(t) # "Zipai")
    IN IF not_zipai = <<>> THEN <<>>
       ELSE LET target_kind == kind(not_zipai[1])
                all_same    == \A i \in 1..Len(not_zipai) :
                                   kind(not_zipai[i]) = target_kind
            IN IF all_same /\ ~has_zipai THEN <<FormB("Qingyise", is_menqian(ts))>>
               ELSE IF all_same /\ has_zipai THEN <<FormB("Hungyise", is_menqian(ts))>>
               ELSE <<>>

special_check_hunlaotou(ts) ==
    LET all == tiles_without_doras(ts)
    IN IF \A i \in 1..Len(all) : is_yaojiu(all[i])
       THEN <<Form("Hunlaotou")>> ELSE <<>>

\* the first tile of target whose addition reproduces the hand decides
\* a shape check that takes every winning tile of the target for the
\* thirteen-sided or nine-sided wait
special_check_certadebugrm_any_wait(ts, target, form_name) ==
    IF did_fulou(ts) \/ ts.angangs # <<>> THEN <<>>
    ELSE LET hand == push(ts.hand, ts.last)
             hits == {i \in 1..Len(target) : push(target, target[i]) = hand}
         IN IF hits = {} THEN <<>>
            ELSE <<FormB(form_name, contains(target, ts.last))>>

special_check_certadebugrm(ts, target, form_name) ==
    IF did_fulou(ts) \/ ts.angangs # <<>> THEN <<>>
    ELSE LET hand == push(ts.hand, ts.last)
             hits == {i \in 1..Len(target) : push(target, target[i]) = hand}
         IN IF hits = {} THEN <<>>
            ELSE LET i == CHOOSE k \in hits : \A j \in hits : k <= j
                 IN <<FormB(form_name, target[i] = ts.last)>>

kokushimuso_target ==
    sorted(<<Suozi(1), Suozi(9), Wanzi(1), Wanzi(9), Tongzi(1), Tongzi(9),
             East, South, West, North, Bai, Fa, Zhong>>)

special_check_kokushimuso(ts) ==
    special_check_certadebugrm(ts, kokushimuso_target, "Kokushimuso")

jiulianbaodeng_orders == <<1, 1, 1, 2, 3, 4, 5, 6, 7, 8, 9, 9, 9>>

special_check_jiulianbaodeng(ts) ==
    LET try(base) == special_check_certadebugrm(ts,
                        sorted([i \in 1..13 |-> base + jiulianbaodeng_orders[i]]),
                        "Jiulianbaodeng")
    IN IF try(Suozi(0)) # <<>> THEN try(Suozi(0))
       ELSE IF try(Wanzi(0)) # <<>> THEN try(Wanzi(0))
       ELSE try(Tongzi(0))

special_check_luyise(ts) ==
    LET all == tiles_without_doras(ts)
    IN IF \A i \in 1..Len(all) : is_green(all[i]) THEN <<Form("Luyise")>> ELSE <<>>

special_check_ziyise(ts) ==
    LET all == tiles_without_doras(ts)
    IN IF \A i \in 1..Len(all) : kind(all[i]) = "Zipai"
       THEN <<Form("Ziyise")>> ELSE <<>>

special_check_qinglaotou(ts) ==
    LET all == tiles_without_doras(ts)
    IN IF \A i \in 1..Len(all) : kind(all[i]) # "Zipai" /\ is_yaojiu(all[i])
       THEN <<Form("Qinglaotou")>> ELSE <<>>

-----------------------------------------------------------------------------
(* form.rs: the forms decided on one AgariTilesets *)

agari_is_menqian(agari) == is_menqian(agari.tilesets)
agari_context(agari) == agari.tilesets.context

RECURSIVE sum_fan(_, _)
sum_fan(groups, ctx) ==
    IF groups = <<>> THEN 0
    ELSE num_fan(first(Head(groups)), ctx) + sum_fan(Tail(groups), ctx)

check_fanpai(agari) ==
    LET sum == sum_fan(kezis(agari), agari_context(agari))
    IN IF sum # 0 THEN <<FormN("Fanpai", sum)>> ELSE <<>>

check_pinghe(agari) ==
    IF ~agari_is_menqian(agari) THEN <<>>
    ELSE IF Len(shunzis(agari)) # 4 THEN <<>>
    ELSE IF kind(first(agari.quetou)) = "Zipai" THEN <<>>
    ELSE IF agari.machi # "Liangmian" THEN <<>>
    ELSE <<Form("Pinghe")>>

\* the firsts of a list of groups, and how many groups start with t
firsts(groups) == {first(groups[i]) : i \in 1..Len(groups)}
num_starting(groups, t) == Cardinality({i \in 1..Len(groups) : first(groups[i]) = t})

\* the orders in which a HashMap with the keys S can be iterated
RECURSIVE orderings(_)
orderings(S) ==
    IF S = {} THEN {<<>>}
    ELSE UNION {{<<t>> \o o : o \in orderings(S \ {t})} : t \in S}

ascending(S) == CHOOSE o \in orderings(S) : \A i \in 1..Len(o) - 1 : o[i] < o[i + 1]

\* the map of check_yibeikou_liangbeigou: runs per first tile
yibeikou_keys(agari) == firsts(shunzis(agari))
yibeikou_nums(agari, keys) ==
    [i \in 1..Len(keys) |-> num_starting(shunzis(agari), keys[i])]

\* a loop that takes three equal runs for no match
RECURSIVE yibeikou_cnt_exact(_, _)
yibeikou_cnt_exact(nums, cnt) ==
    IF nums = <<>> THEN cnt
    ELSE yibeikou_cnt_exact(Tail(nums),
            IF Head(nums) = 4 THEN cnt + 2
            ELSE IF Head(nums) = 2 THEN cnt + 1
            ELSE cnt)

\* a loop that stops after the first entry of the map
yibeikou_cnt_first(nums, cnt) ==
    IF nums = <<>> THEN cnt
    ELSE IF Head(nums) = 4 THEN cnt + 2
    ELSE IF Head(nums) \in {2, 3} THEN cnt + 1
    ELSE cnt

\* a loop that counts every run after the first of its kind
RECURSIVE yibeikou_cnt_per_run(_, _)
yibeikou_cnt_per_run(nums, cnt) ==
    IF nums = <<>> THEN cnt
    ELSE yibeikou_cnt_per_run(Tail(nums), cnt + Head(nums) - 1)

\* the loop over the map: cnt += 2 on 4, cnt += 1 on 2 | 3
RECURSIVE yibeikou_cnt(_, _)
yibeikou_cnt(nums, cnt) ==
    IF nums = <<>> THEN cnt
    ELSE yibeikou_cnt(Tail(nums),
            IF Head(nums) = 4 THEN cnt + 2
            ELSE IF Head(nums) \in {2, 3} THEN cnt + 1
            ELSE cnt)

\* check_yibeikou_liangbeigou with the map iterated in the order keys
check_yibeikou_liangbeigou_iter(agari, keys) ==
    IF ~agari_is_menqian(agari) THEN <<>>
    ELSE LET cnt == yibeikou_cnt(yibeikou_nums(agari, keys), 0)
         IN IF cnt = 1 THEN <<Form("Yibeikou")>>
            ELSE IF cnt = 2 THEN <<Form("Liangbeigou")>>
            ELSE <<>>

\* the arm _ => panic! of the match on cnt
yibeikou_panics_iter(agari, keys) ==
    agari_is_menqian(agari) /\ yibeikou_cnt(yibeikou_nums(agari, keys), 0) \notin {0, 1, 2}

check_yibeikou_liangbeigou(agari) ==
    check_yibeikou_liangbeigou_iter(agari, ascending(yibeikou_keys(agari)))

yibeikou_panics(agari) == yibeikou_panics_iter(agari, ascending(yibeikou_keys(agari)))

\* some order is the start of a group in every one of the three suits
all_three_kinds(groups) ==
    \E o \in 1..9 : \A k \in {"Suozi", "Wanzi", "Tongzi"} :
        \E t \in firsts(groups) : order(t) = o /\ kind(t) = k

check_sanshoku_dojun(agari) ==
    IF all_three_kinds(shunzis(agari))
    THEN <<FormB("Sanshokudojun", agari_is_menqian(agari))>> ELSE <<>>

check_sanshoku_doko(agari) ==
    IF all_three_kinds(kezis(agari)) THEN <<Form("Sanshokudoko")>> ELSE <<>>

check_sananke_sianke(agari) ==
    LET cnt == Len(ankes(agari))
    IN IF cnt = 4 THEN <<FormB("Sianke", agari.machi = "Danqi")>>
       ELSE IF cnt = 3 THEN <<Form("Sananke")>>
       ELSE <<>>

check_ikki_tukan(agari) ==
    IF \E k \in {"Suozi", "Wanzi", "Tongzi", "Zipai"} : \A o \in {1, 4, 7} :
           \E t \in firsts(shunzis(agari)) : kind(t) = k /\ order(t) = o
    THEN <<FormB("Ikkitsukan", agari_is_menqian(agari))>> ELSE <<>>

check_duiduihe(agari) ==
    IF Len(kezis(agari)) # 4 THEN <<>> ELSE <<Form("Duiduihe")>>

\* the same without the demand for a middle tile: (true, _) and (false, _)
check_hunquandaiyaojiu_chunquandaiyaojiu_no_middle(agari) ==
    LET groups == Append(mianzis(agari), agari.quetou)
        all_zhongzhang(g) == \A i \in 1..Len(g) : is_zhongzhang(g[i])
        has_zipai == \E n \in 1..Len(groups) :
                        \E i \in 1..Len(groups[n]) : kind(groups[n][i]) = "Zipai"
    IN IF \E n \in 1..Len(groups) : all_zhongzhang(groups[n]) THEN <<>>
       ELSE IF ~has_zipai
            THEN <<FormB("Chunquandaiyaojiu", agari_is_menqian(agari))>>
       ELSE <<FormB("Hunquandaiyaojiu", agari_is_menqian(agari))>>

check_hunquandaiyaojiu_chunquandaiyaojiu(agari) ==
    LET groups == Append(mianzis(agari), agari.quetou)
        all_zhongzhang(g) == \A i \in 1..Len(g) : is_zhongzhang(g[i])
        has_zipai == \E n \in 1..Len(groups) :
                        \E i \in 1..Len(groups[n]) : kind(groups[n][i]) = "Zipai"
        has_zhongzhang == \E n \in 1..Len(groups) :
                        \E i \in 1..Len(groups[n]) : is_zhongzhang(groups[n][i])
    IN IF \E n \in 1..Len(groups) : all_zhongzhang(groups[n]) THEN <<>>
       ELSE IF ~has_zipai /\ has_zhongzhang
            THEN <<FormB("Chunquandaiyaojiu", agari_is_menqian(agari))>>
       ELSE IF has_zipai /\ has_zhongzhang
            THEN <<FormB("Hunquandaiyaojiu", agari_is_menqian(agari))>>
       ELSE <<>>

check_sangangzi_sigangzi(agari) ==
    LET n == Len(angangs(agari)) + Len(minggangs(agari))
    IN IF n = 4 THEN <<Form("Sigangzi")>>
       ELSE IF n = 3 THEN <<Form("Sangangzi")>>
       ELSE <<>>

num_sanyuan(agari) ==
    Len(SelectSeq(kezis(agari), LAMBDA g : is_sanyuan(first(g))))

check_shousanyuan(agari) ==
    IF ~is_sanyuan(first(agari.quetou)) THEN <<>>
    ELSE IF num_sanyuan(agari) >= 2 THEN <<Form("Shousangen")>>
    ELSE <<>>

check_daisanyuan(agari) ==
    IF num_sanyuan(agari) = 3 THEN <<Form("Daisangen")>> ELSE <<>>

check_shousushi_daisushi(agari) ==
    LET set    == {t \in firsts(kezis(agari)) : kind(t) = "Zipai"}
        winds  == {East, South, West, North}
        q      == first(agari.quetou)
    IN IF winds \subseteq set THEN <<Form("Daisushi")>>
       ELSE IF kind(q) # "Zipai" THEN <<>>
       ELSE IF winds \subseteq (set \cup {q}) THEN <<Form("Shousushi")>>
       ELSE <<>>

-----------------------------------------------------------------------------
(* judge.rs *)

\* Vec::sort_by_key(|f| f.point()): a stable sort, each form placed after the
\* forms that do not compare greater
RECURSIVE insert_by_point(_, _)
insert_by_point(fs, f) ==
    IF fs = <<>> THEN <<f>>
    ELSE IF Point_cmp(Form_point(last(fs)), Form_point(f)) # "Greater" THEN Append(fs, f)
    ELSE Append(insert_by_point(SubSeq(fs, 1, Len(fs) - 1), f), last(fs))

RECURSIVE sort_by_point(_)
sort_by_point(fs) ==
    IF fs = <<>> THEN <<>>
    ELSE insert_by_point(sort_by_point(SubSeq(fs, 1, Len(fs) - 1)), last(fs))

\* a normalisation that keeps every form beside a true limit form
fix_forms_keep_all(forms) ==
    LET s1 == sort_by_point(forms)
    IN IF \A i \in 1..Len(s1) : is_dora(s1[i]) THEN <<>> ELSE s1

\* Judge::fix_forms
fix_forms(forms) ==
    LET s1 == sort_by_point(forms)
        s2 == IF \E i \in 1..Len(s1) : is_true_yiman(Form_point(s1[i]))
              THEN SelectSeq(s1, LAMBDA f : is_true_yiman(Form_point(f)))
              ELSE s1
    IN IF \A i \in 1..Len(s2) : is_dora(s2[i]) THEN <<>> ELSE s2

\* a constructor that accepts an empty form list
Judge_new_unchecked(forms, total, agari) ==
    <<[forms |-> forms, total |-> total, agari |-> agari]>>

\* Judge::new: Option<Judge>; agari is the JudgeTilesets::AgariTilesets payload
\* and empty for JudgeTilesets::Tilesets
Judge_new(forms, total, agari) ==
    IF forms = <<>> THEN <<>>
    ELSE <<[forms |-> forms, total |-> total, agari |-> agari]>>

total_of(forms) == Point_sum([i \in 1..Len(forms) |-> Form_point(forms[i])])

from_tilesets(tilesets, forms) ==
    LET fixed == fix_forms(forms)
    IN Judge_new(fixed, total_of(fixed), <<>>)

\* FuCalculator
\* the flat 20 for every Pinghe, drawn or not
is_pinghe_any(agari, forms) ==
    \E i \in 1..Len(forms) : forms[i] = Form("Pinghe")

is_pinghe_zimo(agari, forms) ==
    agari.tilesets.is_zimo /\ \E i \in 1..Len(forms) : forms[i] = Form("Pinghe")

calc_agari_fu(agari) ==
    IF agari.tilesets.is_zimo THEN 2
    ELSE IF agari_is_menqian(agari) THEN 10
    ELSE 0

RECURSIVE sum_kezi_fu(_, _, _)
sum_kezi_fu(groups, zhongzhang_fu, yaojiu_fu) ==
    IF groups = <<>> THEN 0
    ELSE (IF is_zhongzhang(first(Head(groups))) THEN zhongzhang_fu ELSE yaojiu_fu)
         + sum_kezi_fu(Tail(groups), zhongzhang_fu, yaojiu_fu)

\* a calculator that takes a triplet completed by ron for a concealed one
calc_kezi_fu_ron_concealed(agari) ==
    sum_kezi_fu(pengs(agari), 2, 4)
    + sum_kezi_fu(kezis_in_hand(agari) \o ronghe_mingke(agari), 4, 8)
    + sum_kezi_fu(minggangs(agari), 8, 16)
    + sum_kezi_fu(angangs(agari), 16, 32)

calc_kezi_fu(agari) ==
    sum_kezi_fu(pengs(agari) \o ronghe_mingke(agari), 2, 4)
    + sum_kezi_fu(kezis_in_hand(agari), 4, 8)
    + sum_kezi_fu(minggangs(agari), 8, 16)
    + sum_kezi_fu(angangs(agari), 16, 32)

calc_quetou_fu(agari) == num_fan(first(agari.quetou), agari_context(agari))

calc_machi_fu(agari) ==
    IF agari.machi \in {"Liangmian", "Shuangpeng"} THEN 0 ELSE 2

\* a calculator that leaves a rounded 20 alone
calculate_unraised(agari, forms) ==
    IF is_pinghe_zimo(agari, forms) THEN 20
    ELSE ceil_at(20 + calc_agari_fu(agari) + calc_kezi_fu(agari)
                 + calc_quetou_fu(agari) + calc_machi_fu(agari), 10)

calculate(agari, forms) ==
    IF is_pinghe_zimo(agari, forms) THEN 20
    ELSE LET fudi   == 20
             base   == fudi + calc_agari_fu(agari) + calc_kezi_fu(agari)
                       + calc_quetou_fu(agari) + calc_machi_fu(agari)
             ceiled == ceil_at(base, 10)
         IN IF ~agari.tilesets.is_zimo /\ ceiled = 20 THEN 30 ELSE ceiled

\* the assert_eq!(total.fu, 0) of from_agaritilesets
from_agaritilesets_panics(agari, forms) == total_of(fix_forms(forms)).fu # 0

from_agaritilesets(agari, forms) ==
    LET fixed == fix_forms(forms)
        total == total_of(fixed)
    IN Judge_new(fixed, [total EXCEPT !.fu = calculate(agari, fixed)], <<agari>>)

forms_for_all_base(tilesets) ==
    tilesets.context.lucky_forms
        \o special_check_lizhi(tilesets)
        \o special_check_menqianqingzimohu(tilesets)
        \o special_check_duanyaojiu(tilesets)
        \o special_check_ziyise(tilesets)
        \o special_check_luyise(tilesets)
        \o special_check_hungyise_qingyise(tilesets)
        \o special_check_qinglaotou(tilesets)
        \o special_check_hunlaotou(tilesets)
        \o special_check_dora(tilesets)

\* the form predicates of judge_agari, the map of the matched runs iterated
\* in the order keys
agari_forms_iter(agari, keys) ==
    forms_for_all_base(agari.tilesets)
        \o check_fanpai(agari)
        \o check_pinghe(agari)
        \o check_yibeikou_liangbeigou_iter(agari, keys)
        \o check_sanshoku_dojun(agari)
        \o check_sanshoku_doko(agari)
        \o check_sananke_sianke(agari)
        \o check_ikki_tukan(agari)
        \o check_duiduihe(agari)
        \o check_hunquandaiyaojiu_chunquandaiyaojiu(agari)
        \o check_sangangzi_sigangzi(agari)
        \o check_shousanyuan(agari)
        \o check_daisanyuan(agari)
        \o check_shousushi_daisushi(agari)

agari_forms(agari) == agari_forms_iter(agari, ascending(yibeikou_keys(agari)))

judge_agari(agari) == from_agaritilesets(agari, agari_forms(agari))

judge_special(tilesets, found) ==
    IF found = <<>> THEN <<>>
    ELSE from_tilesets(tilesets, forms_for_all_base(tilesets) \o found)

judge_qiduizi(tilesets) == judge_special(tilesets, special_check_qiduizi(tilesets))
judge_kokushimuso(tilesets) == judge_special(tilesets, special_check_kokushimuso(tilesets))
judge_jiulianbaodeng(tilesets) ==
    judge_special(tilesets, special_check_jiulianbaodeng(tilesets))

\* judge_all over an already enumerated Vec<AgariTilesets>
judge_all_of(tilesets, as) ==
    concat([i \in 1..Len(as) |-> judge_agari(as[i])])
        \o judge_qiduizi(tilesets)
        \o judge_kokushimuso(tilesets)
        \o judge_jiulianbaodeng(tilesets)

\* judge_all with the map of the i-th decomposition iterated in the order orders[i]
judge_all_iter(tilesets, as, orders) ==
    concat([i \in 1..Len(as) |-> from_agaritilesets(as[i], agari_forms_iter(as[i], orders[i]))])
        \o judge_qiduizi(tilesets)
        \o judge_kokushimuso(tilesets)
        \o judge_jiulianbaodeng(tilesets)

judge_all(tilesets) == judge_all_of(tilesets, AgariTilesets_enumerate(tilesets))

\* the comparison closure of judge: total, then fewer forms
Judge_cmp(x, y) ==
    IF Point_cmp(x.total, y.total) # "Equal" THEN Point_cmp(x.total, y.total)
    ELSE IF Len(x.forms) < Len(y.forms) THEN "Greater"
    ELSE IF Len(x.forms) > Len(y.forms) THEN "Less"
    ELSE "Equal"

\* Iterator::max_by: the last of the maximal elements
RECURSIVE max_by(_)
max_by(js) ==
    IF js = <<>> THEN <<>>
    ELSE IF Len(js) = 1 THEN <<js[1]>>
    ELSE LET m == max_by(SubSeq(js, 1, Len(js) - 1))[1]
         IN IF Judge_cmp(m, last(js)) = "Greater" THEN <<m>> ELSE <<last(js)>>

\* a selection that ignores the totals: the first candidate
first_candidate(js) == IF js = <<>> THEN <<>> ELSE <<js[1]>>

judge_of(js) == max_by(js)

judge(tilesets) == judge_of(judge_all(tilesets))

-----------------------------------------------------------------------------
(* tilesets.rs: Tilesets::new *)

wrapping_prev(t) ==
    IF t = East THEN North
    ELSE IF t = Bai THEN Zhong
    ELSE IF kind(t) = "Zipai" THEN t - 1
    ELSE IF order(t) = 1 THEN t + 8
    ELSE t - 1

tiles_all(ts) ==
    tiles_without_doras(ts) \o [i \in 1..Len(ts.doras) |-> wrapping_prev(ts.doras[i])]

check_lizhi_fulou(ts) ==
    IF ts.context.lizhi = "None" THEN "Ok"
    ELSE IF did_fulou(ts) THEN "BothLizhiFulou"
    ELSE "Ok"

\* a count over the dora themselves in place of their indicators
check_num_same_tiles_doras(ts) ==
    LET all == tiles_without_doras(ts) \o ts.doras
    IN IF \E i \in 1..Len(all) : count(all, all[i]) > 4
       THEN "InvalidNumSameTiles" ELSE "Ok"

check_num_same_tiles(ts) ==
    LET all == tiles_all(ts)
    IN IF \E i \in 1..Len(all) : count(all, all[i]) > 4
       THEN "InvalidNumSameTiles" ELSE "Ok"

check_num_tiles(ts) ==
    LET tiles == 1 + Len(ts.hand) + Len(ts.pengs) * 3 + Len(ts.chis) * 3
                 + Len(ts.minggangs) * 3 + Len(ts.angangs) * 3
    IN IF tiles # 14 THEN "InvalidNumTiles" ELSE "Ok"

\* the Result of Tilesets::new on an already dispatched candidate
Tilesets_new(cand) ==
    IF check_lizhi_fulou(cand) # "Ok" THEN check_lizhi_fulou(cand)
    ELSE IF check_num_same_tiles(cand) # "Ok" THEN check_num_same_tiles(cand)
    ELSE check_num_tiles(cand)

\* context.rs
Context_default ==
    [place |-> East, player |-> East, lizhi |-> "None", lucky_forms |-> <<>>]

is_parent(ctx) == ctx.player = East

-----------------------------------------------------------------------------
(* The table: a hand is dealt group by group, melds are called, the win is
   declared on one tile of the hand, and the hand is validated and judged. *)

MaxMelds == 1
MaxDoras == 1

\* the groups, melds and table settings the hands of Spec are dealt from
RunStarts == {Suozi(1), Suozi(2), Suozi(3), Suozi(5), Suozi(7)}
KeziTiles == {Bai}
PairTiles == {Suozi(2), East, South}
ChiStarts == {Wanzi(1)}
DoraTiles == {Suozi(2)}
Players == {East, South}

run_of(t) == <<t, t + 1, t + 2>>
kezi_of(t) == <<t, t, t>>
gang_of(t) == <<t, t, t, t>>

EmptyTilesets ==
    [is_zimo |-> FALSE, last |-> NoTile, hand |-> <<>>, pengs |-> <<>>,
     chis |-> <<>>, minggangs |-> <<>>, angangs |-> <<>>, doras |-> <<>>,
     context |-> Context_default]

num_melds(ts) == Len(ts.pengs) + Len(ts.chis) + Len(ts.minggangs) + Len(ts.angangs)
num_held(ts) == Len(ts.hand) + 3 * num_melds(ts)

RECURSIVE push_all(_, _)
push_all(tiles, ts) ==
    IF ts = <<>> THEN tiles ELSE push_all(push(tiles, Head(ts)), Tail(ts))

Idle == /\ agaris = <<>> /\ cands = <<>> /\ result = <<>>
        /\ mq = <<>> /\ machis = <<>>

Init == /\ pc = "deal"
        /\ input = EmptyTilesets
        /\ Idle

DealTo(group) ==
    /\ pc = "deal"
    /\ num_held(input) + Len(group) <= 14
    /\ input' = [input EXCEPT !.hand = push_all(@, group)]
    /\ UNCHANGED <<pc, agaris, cands, result, mq, machis>>

\* one pair per hand: the hand holds 3n tiles before it and 3n + 2 after
DealPair(pair_tiles) ==
    \E t \in pair_tiles : Len(input.hand) % 3 = 0 /\ DealTo(<<t, t>>)
DealRun(run_starts) == \E t \in run_starts : DealTo(run_of(t))
DealKezi(kezi_tiles) == \E t \in kezi_tiles : DealTo(kezi_of(t))

Call(field, group) ==
    /\ pc = "deal"
    /\ num_melds(input) < MaxMelds
    /\ num_held(input) + 3 <= 14
    /\ input' = [input EXCEPT ![field] = Append(@, group)]
    /\ UNCHANGED <<pc, agaris, cands, result, mq, machis>>

CallPeng(peng_tiles) == \E t \in peng_tiles : Call("pengs", kezi_of(t))
CallChi(chi_starts) == \E t \in chi_starts : Call("chis", run_of(t))
CallMinggang(gang_tiles) == \E t \in gang_tiles : Call("minggangs", gang_of(t))
CallAngang(gang_tiles) == \E t \in gang_tiles : Call("angangs", gang_of(t))

\* every list of at most MaxDoras dora tiles, in Tiles order
DoraLists(dora_tiles) ==
    UNION {{sorted(f) : f \in [1..n -> dora_tiles]} : n \in 0..MaxDoras}

\* the win: one tile of the hand is the winning tile, drawn or discarded
Win(players, dora_tiles) ==
    /\ pc = "deal"
    /\ num_held(input) = 14
    /\ \E t \in {input.hand[i] : i \in 1..Len(input.hand)}, zimo \in BOOLEAN,
          player \in players, doras \in DoraLists(dora_tiles) :
          input' = [input EXCEPT !.last = t,
                                 !.hand = remove(@, position(@, t)),
                                 !.is_zimo = zimo,
                                 !.doras = doras,
                                 !.context = [@ EXCEPT !.player = player]]
    /\ pc' = "new"
    /\ UNCHANGED <<agaris, cands, result, mq, machis>>

\* Tilesets::new
New ==
    /\ pc = "new"
    /\ pc' = IF Tilesets_new(input) = "Ok" THEN "judge" ELSE Tilesets_new(input)
    /\ UNCHANGED <<input, agaris, cands, result, mq, machis>>

\* a fatal check fires somewhere in judge
judge_panics(tilesets, as) ==
    \/ enumerate_panics(tilesets)
    \/ \E i \in 1..Len(as) : yibeikou_panics(as[i])
    \/ \E i \in 1..Len(as) : from_agaritilesets_panics(as[i], agari_forms(as[i]))
    \/ special_check_qiduizi_panics(tilesets)

\* judge(&tilesets): enumerate, judge_all, max_by
Judge ==
    /\ pc = "judge"
    /\ agaris' = AgariTilesets_enumerate(input)
    /\ cands' = judge_all_of(input, agaris')
    /\ result' = judge_of(cands')
    /\ pc' = IF judge_panics(input, agaris') THEN "panic" ELSE "done"
    /\ UNCHANGED <<input, mq, machis>>

Next == \/ DealPair(PairTiles) \/ DealRun(RunStarts) \/ DealKezi(KeziTiles)
        \/ CallChi(ChiStarts)
        \/ Win(Players, DoraTiles) \/ New \/ Judge

Spec == Init /\ [][Next]_vars

\* the groups of the limit hands: dragons, a wind, terminals, nine gates
YimanKeziTiles == {Suozi(1), Suozi(9), East, Bai, Fa, Zhong}
YimanRunStarts == {Suozi(3), Suozi(6)}
YimanPairTiles == {Suozi(2), South}
YimanPengTiles == {Bai}
YimanDoraTiles == {Bai}

NextYiman ==
    \/ DealPair(YimanPairTiles) \/ DealRun(YimanRunStarts) \/ DealKezi(YimanKeziTiles)
    \/ CallPeng(YimanPengTiles)
    \/ Win(Players, YimanDoraTiles) \/ New \/ Judge

SpecYiman == Init /\ [][NextYiman]_vars

\* hands with called and concealed quads: triplets of middle and of
\* terminal or honor tiles, a value pair, a pon or a kan
MeldPairTiles == {Suozi(5), East, Bai}
MeldRunStarts == {Suozi(1), Suozi(6)}
MeldKeziTiles == {Suozi(4), Suozi(9), South}
MeldGangTiles == {Wanzi(1), Wanzi(5)}
NoDoraTiles == {}

NextMeld == \/ DealPair(MeldPairTiles) \/ DealRun(MeldRunStarts)
            \/ DealKezi(MeldKeziTiles)
            \/ CallPeng(MeldGangTiles) \/ CallMinggang(MeldGangTiles)
            \/ CallAngang(MeldGangTiles)
            \/ Win(Players, NoDoraTiles) \/ New \/ Judge

SpecMeld == Init /\ [][NextMeld]_vars

\* whole-hand shapes: hands of pairs, and the thirteen orphans or the nine
\* gates with one more tile
WholePairTiles == {Suozi(o) : o \in 1..7}
WholeKeziTiles == {East}
WholeMeldTiles == {Bai}
WholePlayers == {East}
ShapeExtras == {Suozi(1), Suozi(2), Suozi(5), Suozi(9), East, Fa, Zhong}

nine_gates(base) == sorted([i \in 1..13 |-> base + jiulianbaodeng_orders[i]])

\* the two targets, the orphans with a second Fa in place of Zhong, and the
\* honors in pairs short of one Zhong
ShapeTargets ==
    {kokushimuso_target, nine_gates(Suozi(0)),
     sorted(SelectSeq(kokushimuso_target, LAMBDA t : t # Zhong) \o <<Fa>>),
     <<East, East, South, South, West, West, North, North, Bai, Bai, Fa, Fa, Zhong>>}

DealPairs(pair_tiles) == \E t \in pair_tiles : DealTo(<<t, t>>)

DealShape(targets, extras) ==
    \E target \in targets, extra \in extras :
        input.hand = <<>> /\ DealTo(target \o <<extra>>)

NextWhole == \/ DealPairs(WholePairTiles) \/ DealKezi(WholeKeziTiles)
             \/ DealShape(ShapeTargets, ShapeExtras)
             \/ CallPeng(WholeMeldTiles) \/ CallAngang(WholeMeldTiles)
             \/ Win(WholePlayers, NoDoraTiles) \/ New \/ Judge

SpecWhole == Init /\ [][NextWhole]_vars

\* hands of runs, judged twice, each HashMap iterated in an order of its own
RunsStarts == {Suozi(1), Suozi(2), Suozi(4), Wanzi(1)}
RunsPairTiles == {Suozi(9), East}
RunsChiStarts == {Suozi(1), Tongzi(7)}

\* one iteration order for the map of every decomposition
RECURSIVE order_choices(_)
order_choices(as) ==
    IF as = <<>> THEN {<<>>}
    ELSE {<<o>> \o rest : o \in orderings(yibeikou_keys(Head(as))),
                          rest \in order_choices(Tail(as))}

some_order_panics(as, orders) ==
    \E i \in 1..Len(as) : yibeikou_panics_iter(as[i], orders[i])

\* judge(&tilesets), first call
JudgeHashed ==
    /\ pc = "judge"
    /\ agaris' = AgariTilesets_enumerate(input)
    /\ \E orders \in order_choices(agaris') :
          /\ cands' = judge_all_iter(input, agaris', orders)
          /\ pc' = IF enumerate_panics(input) \/ some_order_panics(agaris', orders)
                   THEN "panic" ELSE "done"
    /\ result' = judge_of(cands')
    /\ UNCHANGED <<input, mq, machis>>

\* judge(&tilesets), second call on the same Tilesets
JudgeAgain ==
    /\ pc = "done"
    /\ LET as == AgariTilesets_enumerate(input)
       IN \E orders \in order_choices(as) :
             /\ mq' = judge_of(judge_all_iter(input, as, orders))
             /\ pc' = IF enumerate_panics(input) \/ some_order_panics(as, orders)
                      THEN "panic" ELSE "again"
    /\ UNCHANGED <<input, agaris, cands, result, machis>>

NextRuns == \/ DealPair(RunsPairTiles) \/ DealRun(RunsStarts)
            \/ CallChi(RunsChiStarts)
            \/ Win(WholePlayers, NoDoraTiles) \/ New \/ JudgeHashed \/ JudgeAgain

SpecRuns == Init /\ [][NextRuns]_vars

\* candidates of Tilesets::new: hands of any size, a declaration, melds that
\* repeat the tiles of the hand, indicators of tiles already held
NewKeziTiles == {Suozi(1), Suozi(5), East}
NewPairTiles == {Suozi(2), Suozi(9)}
NewPengTiles == {Suozi(1)}
NewGangTiles == {Suozi(2)}
NewChiStarts == {Suozi(7)}
NewDoraTiles == {Suozi(3), East}
NewExtraTiles == {Suozi(9)}
NewLizhis == {"Lizhi", "DoubleLizhi"}

\* one tile too many
DealExtra(extra_tiles) ==
    \E t \in extra_tiles :
        /\ pc = "deal"
        /\ num_held(input) = 14
        /\ input' = [input EXCEPT !.hand = push(@, t)]
        /\ UNCHANGED <<pc, agaris, cands, result, mq, machis>>

DeclareLizhi(lizhis) ==
    \E l \in lizhis :
        /\ pc = "deal"
        /\ input.context.lizhi = "None"
        /\ input' = [input EXCEPT !.context.lizhi = l]
        /\ UNCHANGED <<pc, agaris, cands, result, mq, machis>>

\* the win declared on a hand of any size
WinAny(dora_tiles) ==
    /\ pc = "deal"
    /\ input.hand # <<>>
    /\ \E t \in {input.hand[i] : i \in 1..Len(input.hand)},
          doras \in DoraLists(dora_tiles) :
          input' = [input EXCEPT !.last = t,
                                 !.hand = remove(@, position(@, t)),
                                 !.doras = doras]
    /\ pc' = "new"
    /\ UNCHANGED <<agaris, cands, result, mq, machis>>

NextNew == \/ DealPair(NewPairTiles) \/ DealKezi(NewKeziTiles)
           \/ DealExtra(NewExtraTiles)
           \/ CallPeng(NewPengTiles) \/ CallChi(NewChiStarts)
           \/ CallMinggang(NewGangTiles) \/ CallAngang(NewGangTiles)
           \/ DeclareLizhi(NewLizhis) \/ WinAny(NewDoraTiles) \/ New

SpecNew == Init /\ [][NextNew]_vars

\* hands around the terminals and honors: runs 123 and 789, triplets of
\* terminals and honors, a terminal or honor pair, a pon of a terminal
YaoPairTiles == {Suozi(1), East}
YaoRunStarts == {Suozi(1), Suozi(7)}
YaoKeziTiles == {Suozi(9), Wanzi(1), South, Bai}
YaoPengTiles == {Wanzi(9)}

NextYao == \/ DealPair(YaoPairTiles) \/ DealRun(YaoRunStarts)
           \/ DealKezi(YaoKeziTiles)
           \/ CallPeng(YaoPengTiles)
           \/ Win(Players, NoDoraTiles) \/ New \/ Judge

SpecYao == Init /\ [][NextYao]_vars

\* any hand: tiles drawn one by one in Tiles order, at most four of a kind
AnyTiles == {Suozi(o) : o \in 1..4} \cup {Suozi(9), East}
AnyMeldTiles == {Suozi(4), Bai}

DrawAny(tiles) ==
    \E t \in tiles :
        /\ (IF input.hand = <<>> THEN TRUE ELSE last(input.hand) <= t)
        /\ count(input.hand, t) < 4
        /\ DealTo(<<t>>)

NextAny == \/ DrawAny(AnyTiles)
           \/ CallPeng(AnyMeldTiles) \/ CallAngang(AnyMeldTiles)
           \/ Win(WholePlayers, NoDoraTiles) \/ New \/ Judge

SpecAny == Init /\ [][NextAny]_vars

-----------------------------------------------------------------------------
(* enumerate_machis on its own: a pair and a winning tile are given, concealed
   runs and triplets are added in the order the decomposer lists them, and
   the waits are enumerated. *)

MaxMachiGroups == 2

MachiTiles == {Suozi(o) : o \in 1..9} \cup {East}
MachiRunStarts == {Suozi(o) : o \in 1..7}

InitMachi ==
    /\ pc = "machi"
    /\ input = EmptyTilesets
    /\ agaris = <<>> /\ cands = <<>> /\ result = <<>> /\ machis = <<>>
    /\ mq \in [quetou : {<<t, t>> : t \in MachiTiles}, anshuns : {<<>>},
               ankes : {<<>>}, last : MachiTiles]

AddAnshun ==
    /\ pc = "machi"
    /\ Len(mq.anshuns) + Len(mq.ankes) < MaxMachiGroups
    /\ \E t \in MachiRunStarts :
          /\ (IF mq.anshuns = <<>> THEN TRUE ELSE first(last(mq.anshuns)) <= t)
          /\ mq' = [mq EXCEPT !.anshuns = Append(@, run_of(t))]
    /\ UNCHANGED <<pc, input, agaris, cands, result, machis>>

AddAnke ==
    /\ pc = "machi"
    /\ Len(mq.anshuns) + Len(mq.ankes) < MaxMachiGroups
    /\ \E t \in MachiTiles :
          /\ (IF mq.ankes = <<>> THEN TRUE ELSE first(last(mq.ankes)) <= t)
          /\ mq' = [mq EXCEPT !.ankes = Append(@, kezi_of(t))]
    /\ UNCHANGED <<pc, input, agaris, cands, result, machis>>

EnumerateMachis ==
    /\ pc = "machi"
    /\ machis' = enumerate_machis(mq.quetou, mq.anshuns, mq.ankes, mq.last)
    /\ pc' = "machi_done"
    /\ UNCHANGED <<input, agaris, cands, result, mq>>

NextMachi == AddAnshun \/ AddAnke \/ EnumerateMachis

SpecMachi == InitMachi /\ [][NextMachi]_vars

machi_order ==
    <<"Liangmian", "Shuangpeng", "Bianzhang", "Qianzhang", "Danqi", "Yandan">>

machi_rank(m) == CHOOSE k \in 1..Len(machi_order) : machi_order[k] = m

has_machi(m) == \E i \in 1..Len(machis) : machis[i] = m

\* C7: the waits come in the order Liangmian, Shuangpeng, Bianzhang,
\* Qianzhang, Danqi, Yandan without duplicates; Shuangpeng is present exactly
\* when the winning tile is the first tile of a concealed triplet, Qianzhang
\* exactly when it is the middle tile of a concealed run.
C7_MachiOrderAndMembership ==
    pc = "machi_done" =>
        /\ \A i \in 1..Len(machis) : \E k \in 1..Len(machi_order) : machis[i] = machi_order[k]
        /\ \A i, j \in 1..Len(machis) :
              i < j => machi_rank(machis[i]) < machi_rank(machis[j])
        /\ has_machi("Shuangpeng")
              <=> \E n \in 1..Len(mq.ankes) : mq.ankes[n][1] = mq.last
        /\ has_machi("Qianzhang")
              <=> \E n \in 1..Len(mq.anshuns) : mq.anshuns[n][2] = mq.last

\* the winning tile is in a triplet and in the middle of a run, and also at
\* the end of another run: three waits, in order
C7_Witness ==
    /\ pc = "machi_done"
    /\ has_machi("Shuangpeng") /\ has_machi("Qianzhang")
    /\ Len(machis) >= 2

\* b is the tile after a: same suit, next rank
follows(a, b) == kind(a) # "Zipai" /\ kind(a) = kind(b) /\ order(b) = order(a) + 1

\* C8: Danqi and Yandan appear only when the winning tile is the pair tile,
\* and then exactly one of them: Yandan when a concealed run starts on the
\* successor of the winning tile or ends on its predecessor, Danqi otherwise
\* (so always Danqi for an honor pair or without concealed runs).
C8_PairWaits ==
    pc = "machi_done" =>
        LET on_pair  == mq.last = mq.quetou[1]
            adjacent == \E n \in 1..Len(mq.anshuns) :
                           \/ follows(mq.last, mq.anshuns[n][1])
                           \/ follows(mq.anshuns[n][3], mq.last)
        IN /\ (has_machi("Danqi") \/ has_machi("Yandan")) => on_pair
           /\ on_pair => (has_machi("Danqi") <=> ~has_machi("Yandan"))
           /\ on_pair => (has_machi("Yandan") <=> adjacent)
           /\ (on_pair /\ (kind(mq.last) = "Zipai" \/ mq.anshuns = <<>>))
                 => has_machi("Danqi")

\* the concealed runs that have the winning tile as first or last tile
runs_ending_on_last == {n \in 1..Len(mq.anshuns) : mq.last \in {mq.anshuns[n][1], mq.anshuns[n][3]}}

first_run_ending_on_last == CHOOSE n \in runs_ending_on_last : \A k \in runs_ending_on_last : n <= k

is_edge_shape(run, t) ==
    \/ order(run[3]) = 3 /\ order(t) = 3
    \/ order(run[1]) = 7 /\ order(t) = 7

ShuangpengWithRun ==
    /\ pc = "machi_done"
    /\ \E n \in 1..Len(mq.ankes) : mq.ankes[n][1] = mq.last
    /\ runs_ending_on_last # {}
    /\ ~is_edge_shape(mq.anshuns[first_run_ending_on_last], mq.last)

\* C24 as stated: Liangmian and Shuangpeng are never returned together.
C24_NeverLiangmianAndShuangpeng ==
    pc = "machi_done" => ~(has_machi("Liangmian") /\ has_machi("Shuangpeng"))

\* C24, amended: Liangmian and Shuangpeng are returned together exactly when
\* the winning tile is the tile of a concealed triplet and the first concealed
\* run that has it as first or last tile is no edge shape.
C24_LiangmianWithShuangpeng ==
    pc = "machi_done" =>
        ((has_machi("Liangmian") /\ has_machi("Shuangpeng")) <=> ShuangpengWithRun)

\* the case of tests::machi: Liangmian, then Shuangpeng
C24_Witness ==
    /\ pc = "machi_done"
    /\ Len(machis) >= 2
    /\ machis[1] = "Liangmian" /\ machis[2] = "Shuangpeng"
    /\ mq.last = Suozi(1)

\* the pair tile wins below a concealed run that ends on its predecessor
C8_Witness ==
    /\ pc = "machi_done"
    /\ mq.last = mq.quetou[1]
    /\ has_machi("Yandan")
    /\ \A n \in 1..Len(mq.anshuns) : ~follows(mq.last, mq.anshuns[n][1])

-----------------------------------------------------------------------------
(* AgariTilesets::enumerate on its own: a concealed hand is drawn tile by
   tile in Tiles order, at most four of a kind, and the win is declared on
   one of its tiles. *)

MaxHandGroups == 3

DecompTiles == {Suozi(o) : o \in 1..4} \cup {Suozi(9), East}

InitDecomp == /\ pc = "draw"
              /\ input = EmptyTilesets
              /\ Idle

Draw ==
    /\ pc = "draw"
    /\ Len(input.hand) < 3 * MaxHandGroups + 2
    /\ \E t \in DecompTiles :
          /\ (IF input.hand = <<>> THEN TRUE ELSE last(input.hand) <= t)
          /\ count(input.hand, t) < 4
          /\ input' = [input EXCEPT !.hand = push(@, t)]
    /\ UNCHANGED <<pc, agaris, cands, result, mq, machis>>

Enumerate ==
    /\ pc = "draw"
    /\ Len(input.hand) % 3 = 2
    /\ \E t \in {input.hand[i] : i \in 1..Len(input.hand)}, zimo \in BOOLEAN :
          input' = [input EXCEPT !.last = t,
                                 !.hand = remove(@, position(@, t)),
                                 !.is_zimo = zimo]
    /\ agaris' = AgariTilesets_enumerate(input')
    /\ pc' = IF enumerate_panics(input') THEN "panic" ELSE "enumerated"
    /\ UNCHANGED <<cands, result, mq, machis>>

NextDecomp == Draw \/ Enumerate

SpecDecomp == InitDecomp /\ [][NextDecomp]_vars

\* the sorted tiles without one occurrence of each tile of group
RECURSIVE without(_, _)
without(tiles, group) ==
    IF group = <<>> THEN tiles
    ELSE without(remove(tiles, position(tiles, Head(group))), Tail(group))

\* exhaustive search: the lowest tile left is in the pair, in a triplet or at
\* the foot of a run; triplets and runs are named by their first tile
RECURSIVE partitions(_, _)
partitions(tiles, need_pair) ==
    IF tiles = <<>>
    THEN IF need_pair THEN {}
         ELSE {[quetou |-> NoTile, kezis |-> <<>>, shunzis |-> <<>>]}
    ELSE LET t == Head(tiles)
             as_pair ==
                 IF need_pair /\ count(tiles, t) >= 2
                 THEN {[p EXCEPT !.quetou = t] :
                          p \in partitions(without(tiles, <<t, t>>), FALSE)}
                 ELSE {}
             as_kezi ==
                 IF count(tiles, t) >= 3
                 THEN {[p EXCEPT !.kezis = <<t>> \o @] :
                          p \in partitions(without(tiles, <<t, t, t>>), need_pair)}
                 ELSE {}
             as_run ==
                 IF /\ kind(t) # "Zipai" /\ order(t) <= 7
                    /\ contains(tiles, t + 1) /\ contains(tiles, t + 2)
                 THEN {[p EXCEPT !.shunzis = <<t>> \o @] :
                          p \in partitions(without(tiles, <<t, t + 1, t + 2>>), need_pair)}
                 ELSE {}
         IN as_pair \cup as_kezi \cup as_run

first_tiles(groups) == [i \in 1..Len(groups) |-> first(groups[i])]

\* the (pair, triplet set, run set) of an AgariTilesets, the group claimed
\* by ron put back
decomposition_of(agari) ==
    [quetou  |-> first(agari.quetou),
     kezis   |-> sorted(first_tiles(kezis_in_hand(agari) \o ronghe_mingke(agari))),
     shunzis |-> sorted(first_tiles(shunzis_in_hand(agari) \o ronghe_mingshun(agari)))]

decompositions == {decomposition_of(agaris[i]) : i \in 1..Len(agaris)}

\* C3: enumerate finds every decomposition: the (pair, triplet set, run set)
\* results it produces are exactly the partitions of hand plus winning tile
\* into one pair plus triplets and runs that an exhaustive search finds, and
\* no assertion of the decomposer fires.
C3_EnumerateIsExhaustive ==
    /\ pc # "panic"
    /\ pc = "enumerated" =>
          decompositions = partitions(push(input.hand, input.last), TRUE)

\* 1-1-1 2-2-2 3-3-3 read as three triplets and as three equal runs
C3_Witness ==
    /\ pc = "enumerated"
    /\ \E d, e \in decompositions :
          /\ Len(d.kezis) >= 2 /\ d.shunzis = <<>>
          /\ e.kezis = <<>> /\ Len(e.shunzis) >= 2 /\ e.shunzis[1] = e.shunzis[2]

is_kezi_shape(g) == Len(g) = 3 /\ g[1] = g[2] /\ g[2] = g[3]

is_shunzi_shape(g) ==
    /\ Len(g) = 3
    /\ kind(g[1]) # "Zipai" /\ kind(g[1]) = kind(g[2]) /\ kind(g[2]) = kind(g[3])
    /\ order(g[2]) = order(g[1]) + 1 /\ order(g[3]) = order(g[2]) + 1

\* C4: tile conservation: the pair, the concealed triplets, the concealed
\* runs and the group reclassified by ron hold together exactly the tiles of
\* the concealed hand plus the winning tile; the pair is two equal tiles,
\* every triplet three equal tiles, every run three consecutive ranks of one
\* suit.
C4_TileConservation ==
    pc = "enumerated" =>
        \A i \in 1..Len(agaris) :
            LET a == agaris[i]
            IN /\ sorted(a.quetou \o concat(a.kezis_in_hand)
                         \o concat(a.shunzis_in_hand) \o a.rongming.tiles)
                     = push(input.hand, input.last)
               /\ Len(a.quetou) = 2 /\ a.quetou[1] = a.quetou[2]
               /\ \A n \in 1..Len(a.kezis_in_hand) : is_kezi_shape(a.kezis_in_hand[n])
               /\ \A n \in 1..Len(a.shunzis_in_hand) : is_shunzi_shape(a.shunzis_in_hand[n])
               /\ a.rongming.tag = "Mingke" => is_kezi_shape(a.rongming.tiles)
               /\ a.rongming.tag = "Mingshun" => is_shunzi_shape(a.rongming.tiles)
               /\ a.rongming.tag = "None" => a.rongming.tiles = <<>>

\* a win by discard that moves a triplet and leaves a run in the hand
C4_Witness ==
    /\ pc = "enumerated"
    /\ ~input.is_zimo
    /\ \E i \in 1..Len(agaris) :
          /\ agaris[i].rongming.tag = "Mingke"
          /\ agaris[i].shunzis_in_hand # <<>>

-----------------------------------------------------------------------------
(* AgariTilesets::new on its own: a pair, concealed triplets and runs and
   concealed quads are laid out in any order, and the AgariTilesets is built
   for a winning tile, drawn or discarded. *)

MaxRongGroups == 2

RongTiles == {Suozi(1), Suozi(2), Suozi(3), East}
RongRunStarts == {Suozi(1), Suozi(2)}

InitRong ==
    /\ pc = "lay"
    /\ agaris = <<>> /\ cands = <<>> /\ result = <<>> /\ machis = <<>>
    /\ \E t \in RongTiles, zimo \in BOOLEAN :
          input = [EmptyTilesets EXCEPT !.last = t, !.is_zimo = zimo]
    /\ mq \in [quetou : {<<t, t>> : t \in RongTiles}, kezis_in_hand : {<<>>},
               shunzis_in_hand : {<<>>}]

num_laid == Len(mq.kezis_in_hand) + Len(mq.shunzis_in_hand) + Len(input.angangs)

LayShunzi ==
    /\ pc = "lay"
    /\ num_laid < MaxRongGroups
    /\ \E t \in RongRunStarts :
          mq' = [mq EXCEPT !.shunzis_in_hand = Append(@, run_of(t))]
    /\ UNCHANGED <<pc, input, agaris, cands, result, machis>>

LayKezi ==
    /\ pc = "lay"
    /\ num_laid < MaxRongGroups
    /\ \E t \in RongTiles :
          mq' = [mq EXCEPT !.kezis_in_hand = Append(@, kezi_of(t))]
    /\ UNCHANGED <<pc, input, agaris, cands, result, machis>>

LayAngang ==
    /\ pc = "lay"
    /\ num_laid < MaxRongGroups
    /\ \E t \in RongTiles :
          input' = [input EXCEPT !.angangs = Append(@, gang_of(t))]
    /\ UNCHANGED <<pc, agaris, cands, result, mq, machis>>

\* AgariTilesets::new(tilesets, machi, quetou, kezis_in_hand, shunzis_in_hand)
NewAgari ==
    /\ pc = "lay"
    /\ \E m \in {machi_order[k] : k \in 1..Len(machi_order)} :
          agaris' = <<AgariTilesets_new(input, m, mq.quetou, mq.kezis_in_hand,
                                        mq.shunzis_in_hand)>>
    /\ pc' = IF fix_rong_an_mings(input, mq.quetou, mq.kezis_in_hand,
                                  mq.shunzis_in_hand).panic
             THEN "panic" ELSE "reconciled"
    /\ UNCHANGED <<input, cands, result, mq, machis>>

NextRong == LayShunzi \/ LayKezi \/ LayAngang \/ NewAgari

SpecRong == InitRong /\ [][NextRong]_vars

\* n is the first group of groups that holds t
is_first_with(groups, n, t) ==
    /\ n \in 1..Len(groups)
    /\ contains(groups[n], t)
    /\ \A k \in 1..(n - 1) : ~contains(groups[k], t)

holds_tile(groups, t) == \E n \in 1..Len(groups) : contains(groups[n], t)

\* C9: on a win by discard the first concealed run holding the winning tile
\* is moved to the reclassified slot as an exposed run and every concealed
\* triplet and quad stays; only without such a run is the first concealed
\* triplet holding it moved as an exposed triplet, and only without such a
\* triplet a concealed quad; on a self-drawn win nothing is moved.
C9_ReconcilePriority ==
    pc = "reconciled" =>
        LET a  == agaris[1]
            lt == input.last
            sh == mq.shunzis_in_hand
            kz == mq.kezis_in_hand
            ag == input.angangs
        IN /\ input.is_zimo =>
                 /\ a.rongming = NoRongming
                 /\ a.shunzis_in_hand = sh /\ a.kezis_in_hand = kz
                 /\ a.tilesets.angangs = ag
           /\ (~input.is_zimo /\ holds_tile(sh, lt)) =>
                 /\ \E n \in 1..Len(sh) :
                       /\ is_first_with(sh, n, lt)
                       /\ a.rongming = [tag |-> "Mingshun", tiles |-> sh[n]]
                       /\ a.shunzis_in_hand = remove(sh, n)
                 /\ a.kezis_in_hand = kz /\ a.tilesets.angangs = ag
           /\ (~input.is_zimo /\ ~holds_tile(sh, lt) /\ holds_tile(kz, lt)) =>
                 /\ \E n \in 1..Len(kz) :
                       /\ is_first_with(kz, n, lt)
                       /\ a.rongming = [tag |-> "Mingke", tiles |-> kz[n]]
                       /\ a.kezis_in_hand = remove(kz, n)
                 /\ a.shunzis_in_hand = sh /\ a.tilesets.angangs = ag
           /\ (~input.is_zimo /\ ~holds_tile(sh, lt) /\ ~holds_tile(kz, lt)
                  /\ holds_tile(ag, lt)) =>
                 /\ \E n \in 1..Len(ag) :
                       /\ is_first_with(ag, n, lt)
                       /\ a.rongming = [tag |-> "Mingke", tiles |-> ag[n]]
                       /\ a.tilesets.angangs = remove(ag, n)
                 /\ a.shunzis_in_hand = sh /\ a.kezis_in_hand = kz
           /\ (~input.is_zimo /\ ~holds_tile(sh, lt) /\ ~holds_tile(kz, lt)
                  /\ ~holds_tile(ag, lt)) =>
                 /\ a.rongming = NoRongming
                 /\ a.shunzis_in_hand = sh /\ a.kezis_in_hand = kz
                 /\ a.tilesets.angangs = ag

\* a discard that fits a concealed run and a concealed triplet: the run goes
C9_Witness ==
    /\ pc = "reconciled"
    /\ ~input.is_zimo
    /\ holds_tile(mq.shunzis_in_hand, input.last)
    /\ holds_tile(mq.kezis_in_hand, input.last)
    /\ agaris[1].rongming.tag = "Mingshun"
    /\ agaris[1].kezis_in_hand = mq.kezis_in_hand

-----------------------------------------------------------------------------
(* Point on its own: two totals as Judge builds them (a sum of form points
   with the fu of the calculator or of Qiduizi, or a sum of true limit
   forms) are compared and valued for one seat. *)

MaxFan == 14
MaxYiman == 2

FuValues == {20, 25, 30, 40, 50, 60, 70, 110}

\* a total without a true limit form has a fan and a fu; a total of true
\* limit forms has 13 fan for each and the fu of the calculator, or none
Points ==
    {[fan |-> fan, fu |-> fu, yiman |-> 0] : fan \in 1..MaxFan, fu \in FuValues}
        \cup {[fan |-> 13 * n, fu |-> fu, yiman |-> n] :
                 n \in 1..MaxYiman, fu \in FuValues \cup {0}}

InitPoint ==
    /\ pc = "points"
    /\ input = EmptyTilesets
    /\ agaris = <<>> /\ cands = <<>> /\ result = <<>> /\ machis = <<>>
    /\ mq \in [p : Points, q : Points, is_parent : BOOLEAN]

\* p.cmp(&q), p == q, p.value(is_parent), q.value(is_parent)
ComparePoints ==
    /\ pc = "points"
    /\ result' = <<[cmp     |-> Point_cmp(mq.p, mq.q),
                    eq      |-> Point_eq(mq.p, mq.q),
                    value_p |-> Point_value(mq.p, mq.is_parent),
                    value_q |-> Point_value(mq.q, mq.is_parent)]>>
    /\ pc' = "compared"
    /\ UNCHANGED <<input, agaris, cands, mq, machis>>

NextPoint == ComparePoints

SpecPoint == InitPoint /\ [][NextPoint]_vars

\* C11: Point's ordering is the ordering by monetary value: p < q exactly
\* when p.value(is_parent) < q.value(is_parent), and p == q exactly when the
\* values are equal.
C11_OrderIsByValue ==
    pc = "compared" =>
        /\ (result[1].cmp = "Less") <=> (result[1].value_p < result[1].value_q)
        /\ result[1].eq <=> (result[1].value_p = result[1].value_q)

\* the table of values: the seat's multiplier, mangan, and the value bands
seat_multiplier(leading) == IF leading THEN 6 ELSE 4

mangan_value(leading) == IF leading THEN 12000 ELSE 8000

round_up_to_100(x) == x + ((100 - (x % 100)) % 100)

min_of(a, b) == IF a <= b THEN a ELSE b

table_value(fan, fu, leading) ==
    IF fan <= 4
    THEN IF (fan = 4 /\ fu = 30) \/ (fan = 3 /\ fu = 60)
         THEN mangan_value(leading)
         ELSE min_of(mangan_value(leading),
                     round_up_to_100(fu * seat_multiplier(leading) * 2 ^ (fan + 2)))
    ELSE IF fan = 5 THEN mangan_value(leading)
    ELSE IF fan <= 7 THEN (IF leading THEN 18000 ELSE 12000)
    ELSE IF fan <= 10 THEN (IF leading THEN 24000 ELSE 16000)
    ELSE IF fan <= 12 THEN (IF leading THEN 36000 ELSE 24000)
    ELSE Point_value(Point_new_yiman, leading)

\* C13: the value of a Point without a true limit form: up to 4 fan the
\* smaller of mangan and fu * m * 2^(fan+2) rounded up to a hundred (m = 6
\* for the leading seat, 4 otherwise), with 4 fan 30 fu and 3 fan 60 fu
\* forced to mangan; 12000/18000/24000/36000 (8000/12000/16000/24000) for 5,
\* 6-7, 8-10, 11-12 fan whatever the fu; the single true-limit value from
\* 13 fan on.
C13_ValueTable ==
    (pc = "compared" /\ mq.p.yiman = 0) =>
        /\ result[1].value_p = table_value(mq.p.fan, mq.p.fu, mq.is_parent)
        /\ Point_value(Point_new_yiman, mq.is_parent)
              = (IF mq.is_parent THEN 48000 ELSE 32000)

\* 1 fan 30 fu for the leading seat: 1440 rounded up to 1500
C13_Witness ==
    /\ pc = "compared"
    /\ mq.is_parent
    /\ mq.p = [fan |-> 1, fu |-> 30, yiman |-> 0]
    /\ result[1].value_p = 1500

-----------------------------------------------------------------------------
(* Properties of judge *)

value_of(j) == Point_value(j.total, is_parent(input.context))

\* C1: judge returns a candidate of judge_all, and no candidate has a
\* monetary value strictly greater than the returned one; it returns None
\* only when there is no candidate.
C1_JudgeReturnsGreatestValue ==
    pc = "done" =>
        /\ (result = <<>>) <=> (cands = <<>>)
        /\ result # <<>> =>
              /\ \E i \in 1..Len(cands) : cands[i] = result[1]
              /\ \A i \in 1..Len(cands) : value_of(cands[i]) <= value_of(result[1])

\* a judged hand whose candidates differ in value, the greater one returned
C1_Witness ==
    /\ pc = "done"
    /\ result # <<>>
    /\ \E i \in 1..Len(cands) : value_of(cands[i]) < value_of(result[1])
    /\ value_of(cands[1]) < value_of(result[1])


\* the form lists judge_all builds before normalisation: one per decomposition
\* and wait, and one per special shape that applies
special_forms ==
    LET base == forms_for_all_base(input)
        sp   == <<special_check_qiduizi(input), special_check_kokushimuso(input),
                  special_check_jiulianbaodeng(input)>>
    IN [i \in {k \in 1..3 : sp[k] # <<>>} |-> base \o sp[i]]

all_dora(forms) == \A i \in 1..Len(forms) : is_dora(forms[i])

\* C2: a returned Judgment has a form list that is not empty and holds a
\* form other than Dora; when every candidate form list holds nothing but
\* Dora (or nothing at all), judge returns None.
C2_NoWinOnDoraAlone ==
    pc = "done" =>
        /\ result # <<>> => (result[1].forms # <<>> /\ ~all_dora(result[1].forms))
        /\ \A i \in 1..Len(cands) : cands[i].forms # <<>> /\ ~all_dora(cands[i].forms)
        /\ ( /\ \A i \in 1..Len(agaris) : all_dora(agari_forms(agaris[i]))
             /\ DOMAIN special_forms = {} )
           => result = <<>>

\* a complete hand whose only form is Dora, judged to None
C2_Witness ==
    /\ pc = "done"
    /\ result = <<>>
    /\ agaris # <<>>
    /\ \A i \in 1..Len(agaris) :
          agari_forms(agaris[i]) # <<>> /\ all_dora(agari_forms(agaris[i]))

num_true_yiman(forms) ==
    Len(SelectSeq(forms, LAMBDA f : is_true_yiman(Form_point(f))))

\* forms normalised to the Judgment j: only the true limit forms are left,
\* yiman counts them and the value is that many limits
normalised_limit(raw, j) ==
    num_true_yiman(raw) > 0 =>
        /\ j # <<>>
        /\ \E i \in 1..Len(cands) : cands[i] = j[1]
        /\ \A i \in 1..Len(j[1].forms) : is_true_yiman(Form_point(j[1].forms[i]))
        /\ Len(j[1].forms) = num_true_yiman(raw)
        /\ j[1].total.yiman = num_true_yiman(raw)
        /\ value_of(j[1]) = num_true_yiman(raw)
                              * (IF is_parent(input.context) THEN 48000 ELSE 32000)

\* C10: a candidate with a true limit form keeps only its true limit forms,
\* its limit multiplier is their number and its value that number times
\* 48000 for the leading seat, 32000 otherwise.
C10_TrueLimitNormalisation ==
    pc = "done" =>
        /\ \A i \in 1..Len(agaris) :
              normalised_limit(agari_forms(agaris[i]), judge_agari(agaris[i]))
        /\ \A k \in DOMAIN special_forms :
              normalised_limit(special_forms[k], from_tilesets(input, special_forms[k]))

\* a candidate with two or more true limit forms whose ordinary forms and
\* Dora were dropped
C10_Witness ==
    /\ pc = "done"
    /\ input.doras # <<>>
    /\ \E i \in 1..Len(agaris) :
          /\ num_true_yiman(agari_forms(agaris[i])) >= 2
          /\ Len(agari_forms(agaris[i])) > num_true_yiman(agari_forms(agaris[i]))
          /\ \E f \in {agari_forms(agaris[i])[n] : n \in 1..Len(agari_forms(agaris[i]))} :
                is_dora(f)
    /\ result # <<>> /\ result[1].total.yiman >= 2


\* C5: a fully concealed decomposition of four runs with an open wait is
\* awarded Pinghe exactly when its pair is no value tile; a pair of an honor
\* that is neither the round wind, the seat wind nor a dragon counts as no
\* value tile.
C5_PingheUnlessValuePair ==
    pc = "done" =>
        \A i \in 1..Len(agaris) :
            ( /\ agari_is_menqian(agaris[i])
              /\ Len(shunzis(agaris[i])) = 4
              /\ agaris[i].machi = "Liangmian" )
            => ( check_pinghe(agaris[i]) # <<>>
                 <=> num_fan(first(agaris[i].quetou), agari_context(agaris[i])) = 0 )

\* the runs of a decomposition that come from the concealed hand
hand_runs(agari) == anshuns(agari) \o ronghe_mingshun(agari)

same_decomposition(a, b) ==
    /\ a.quetou = b.quetou
    /\ a.kezis_in_hand = b.kezis_in_hand
    /\ a.shunzis_in_hand = b.shunzis_in_hand
    /\ a.rongming = b.rongming

\* the winning tile ends one concealed run and starts another
between_two_runs(agari, t) ==
    /\ \E n \in 1..Len(hand_runs(agari)) : hand_runs(agari)[n] = <<t - 2, t - 1, t>>
    /\ \E n \in 1..Len(hand_runs(agari)) : hand_runs(agari)[n] = <<t, t + 1, t + 2>>

\* C6: when the winning tile is a 7 and the decomposition holds the concealed
\* runs 5-6-7 and 7-8-9 of its suit (or a 3 with 1-2-3 and 3-4-5), the same
\* decomposition is also a candidate with the Bianzhang wait.
C6_EdgeWaitAmongCandidates ==
    pc = "done" =>
        \A i \in 1..Len(agaris) :
            (order(input.last) \in {3, 7} /\ between_two_runs(agaris[i], input.last))
            => \E j \in 1..Len(agaris) :
                  /\ same_decomposition(agaris[j], agaris[i])
                  /\ agaris[j].machi = "Bianzhang"

\* C12: tie-break: among candidates whose totals compare equal judge prefers
\* the one with fewer forms, and a candidate with more forms is never
\* returned while a candidate of equal value with strictly fewer forms
\* exists.
C12_FewerFormsOnTie ==
    (pc = "done" /\ result # <<>>) =>
        \A i \in 1..Len(cands) :
            /\ Point_cmp(cands[i].total, result[1].total) = "Equal"
                  => Len(result[1].forms) <= Len(cands[i].forms)
            /\ value_of(cands[i]) = value_of(result[1])
                  => Len(result[1].forms) <= Len(cands[i].forms)


\* the fu FuCalculator computes for an AgariTilesets inside judge_agari
fu_of(agari) == calculate(agari, fix_forms(agari_forms(agari)))

\* C14: the fu of the calculator is always a multiple of 10, and for a win
\* that is not self-drawn it is never 20.
C14_FuRounded ==
    pc = "done" =>
        \A i \in 1..Len(agaris) :
            /\ fu_of(agaris[i]) % 10 = 0
            /\ ~agaris[i].tilesets.is_zimo => fu_of(agaris[i]) # 20

\* an open all-runs hand won by discard on a two-sided wait: 20 raised to 30
C14_Witness ==
    /\ pc = "done"
    /\ ~input.is_zimo
    /\ \E i \in 1..Len(agaris) :
          /\ calc_agari_fu(agaris[i]) + calc_kezi_fu(agaris[i])
                + calc_quetou_fu(agaris[i]) + calc_machi_fu(agaris[i]) = 0
          /\ fu_of(agaris[i]) = 30


\* the tile is a suited 2..8
is_middle_rank(t) == t < 30 /\ (t % 10) \in 2..8

RECURSIVE triplet_fu(_, _)
triplet_fu(groups, middle_fu) ==
    IF groups = <<>> THEN 0
    ELSE (IF is_middle_rank(Head(groups)[1]) THEN middle_fu ELSE 2 * middle_fu)
         + triplet_fu(Tail(groups), middle_fu)

value_tile_count(t, ctx) ==
    (IF t = ctx.place THEN 1 ELSE 0) + (IF t = ctx.player THEN 1 ELSE 0)
        + (IF t \in {Bai, Fa, Zhong} THEN 1 ELSE 0)

\* the unrounded fu, group by group
unrounded_fu(a) ==
    LET ts == a.tilesets
    IN 20
       + (IF ts.is_zimo THEN 2
          ELSE IF ts.pengs = <<>> /\ ts.chis = <<>> /\ ts.minggangs = <<>> THEN 10
          ELSE 0)
       + triplet_fu(ts.pengs, 2)
       + (IF a.rongming.tag = "Mingke" THEN triplet_fu(<<a.rongming.tiles>>, 2) ELSE 0)
       + triplet_fu(a.kezis_in_hand, 4)
       + triplet_fu(ts.minggangs, 8)
       + triplet_fu(ts.angangs, 16)
       + value_tile_count(a.quetou[1], ts.context)
       + (IF a.machi \in {"Liangmian", "Shuangpeng"} THEN 0 ELSE 2)

round_up_to_10(x) == x + ((10 - (x % 10)) % 10)

\* C15: outside the Pinghe self-draw shortcut the unrounded fu is 20, plus
\* 2 if self-drawn, else 10 if no group is exposed, plus 2/4 for an exposed
\* triplet (pon or completed by ron), 4/8 for a concealed triplet, 8/16 for
\* an exposed quad, 16/32 for a concealed quad (middle rank / terminal or
\* honor), plus the pair tile's value-tile count, plus 2 if the wait is
\* neither Liangmian nor Shuangpeng; the fu is that sum rounded up.
C15_FuBreakdown ==
    pc = "done" =>
        \A i \in 1..Len(agaris) :
            LET a     == agaris[i]
                forms == fix_forms(agari_forms(a))
                base  == 20 + calc_agari_fu(a) + calc_kezi_fu(a)
                         + calc_quetou_fu(a) + calc_machi_fu(a)
            IN /\ base = unrounded_fu(a)
               /\ ~is_pinghe_zimo(a, forms) =>
                     fu_of(a) = (IF ~a.tilesets.is_zimo /\ round_up_to_10(base) = 20
                                 THEN 30 ELSE round_up_to_10(unrounded_fu(a)))

\* a win by discard on a terminal triplet beside a concealed quad, with a
\* value pair
C15_Witness ==
    /\ pc = "done"
    /\ \E i \in 1..Len(agaris) :
          /\ agaris[i].rongming.tag = "Mingke"
          /\ ~is_middle_rank(agaris[i].rongming.tiles[1])
          /\ agaris[i].tilesets.angangs # <<>>
          /\ value_tile_count(agaris[i].quetou[1], input.context) = 2
          /\ agaris[i].kezis_in_hand # <<>>


\* the forms of one name among a list of forms
forms_named(forms, names) == SelectSeq(forms, LAMBDA f : f.name \in names)

\* C16: the concealed-triplet forms count the triplets left in the hand
\* after reconciliation plus the concealed quads: exactly 3 gives Sananke,
\* exactly 4 gives Sianke flagged exactly when the wait is Danqi, any other
\* count nothing; a triplet completed by ron, a pon and a called quad do not
\* count.
C16_ConcealedTriplets ==
    pc = "done" =>
        \A i \in 1..Len(agaris) :
            LET a     == agaris[i]
                cnt   == Len(a.kezis_in_hand) + Len(a.tilesets.angangs)
                found == forms_named(agari_forms(a), {"Sananke", "Sianke"})
            IN /\ found = check_sananke_sianke(a)
               /\ cnt = 3 => found = <<Form("Sananke")>>
               /\ cnt = 4 => found = <<FormB("Sianke", a.machi = "Danqi")>>
               /\ cnt \notin {3, 4} => found = <<>>

\* three triplets and a concealed quad, won by discard on one triplet: the
\* completed triplet is exposed and Sananke is all that is left
C16_Witness ==
    /\ pc = "done"
    /\ \E i \in 1..Len(agaris) :
          /\ agaris[i].rongming.tag = "Mingke"
          /\ Len(agaris[i].kezis_in_hand) = 2
          /\ Len(agaris[i].tilesets.angangs) = 1
          /\ check_sananke_sianke(agaris[i]) = <<Form("Sananke")>>


-----------------------------------------------------------------------------
(* Whole-hand shapes *)

\* how often a tile kind occurs among the hand tiles and the winning tile
occurrences(ts, t) ==
    Cardinality({i \in 1..Len(ts.hand) : ts.hand[i] = t})
    + (IF ts.last = t THEN 1 ELSE 0)

kinds_of(ts) == {ts.hand[i] : i \in 1..Len(ts.hand)} \cup {ts.last}

has_exposed_group(ts) == Len(ts.pengs) + Len(ts.chis) + Len(ts.minggangs) > 0

has_form(j, name) == \E i \in 1..Len(j.forms) : j.forms[i].name = name

target_occurrences(target, t) == Cardinality({i \in 1..Len(target) : target[i] = t})

target_kinds(target) == {target[i] : i \in 1..Len(target)}

\* the tiles e of the target with: hand and winning tile = target plus e
shape_extras(ts, target) ==
    {e \in target_kinds(target) :
        \A t \in kinds_of(ts) \cup target_kinds(target) :
            occurrences(ts, t) = target_occurrences(target, t) + (IF t = e THEN 1 ELSE 0)}

\* the thirteen hand tiles alone are the target
hand_is_target(ts, target) ==
    \A t \in kinds_of(ts) \cup target_kinds(target) :
        Cardinality({i \in 1..Len(ts.hand) : ts.hand[i] = t}) = target_occurrences(target, t)

kokushimuso_targets ==
    {<<Suozi(1), Suozi(9), Wanzi(1), Wanzi(9), Tongzi(1), Tongzi(9),
       East, South, West, North, Bai, Fa, Zhong>>}

jiulianbaodeng_targets ==
    {[i \in 1..13 |-> base + jiulianbaodeng_orders[i]] : base \in {Suozi(0), Wanzi(0), Tongzi(0)}}

shape_found(ts, found, name, targets) ==
    LET fits == {target \in targets : shape_extras(ts, target) # {}}
    IN IF has_exposed_group(ts) \/ Len(ts.angangs) > 0 \/ fits = {}
       THEN found = <<>>
       ELSE /\ found = <<FormB(name, \E target \in fits : ts.last \in shape_extras(ts, target))>>
            /\ \A target \in fits :
                    ts.last \in shape_extras(ts, target) <=> hand_is_target(ts, target)

\* C18: the thirteen orphans and the nine gates are found exactly when the
\* hand has no exposed group and no concealed quad and the hand tiles with
\* the winning tile are the target's thirteen tiles and one more tile of the
\* target; the flag of the form is true exactly when the winning tile is that
\* doubled tile, which is exactly when the hand tiles alone are the target.
C18_TargetShapes ==
    pc = "done" =>
        /\ shape_found(input, special_check_kokushimuso(input),
                       "Kokushimuso", kokushimuso_targets)
        /\ shape_found(input, special_check_jiulianbaodeng(input),
                       "Jiulianbaodeng", jiulianbaodeng_targets)

\* the thirteen orphans won on a tile other than the doubled one
C18_Witness ==
    /\ pc = "done"
    /\ special_check_kokushimuso(input) = <<FormB("Kokushimuso", FALSE)>>
    /\ input.last \in target_kinds(kokushimuso_target)
    /\ occurrences(input, input.last) = 1
    /\ result # <<>>
    /\ has_form(result[1], "Kokushimuso")

-----------------------------------------------------------------------------
(* Matched runs, and judge called twice *)

AllTiles == 1..37

\* the number of runs of a decomposition that start with t: called, in the
\* hand, or completed by ron
runs_from(agari, t) ==
    Cardinality({i \in 1..Len(agari.tilesets.chis) : agari.tilesets.chis[i][1] = t})
    + Cardinality({i \in 1..Len(agari.shunzis_in_hand) : agari.shunzis_in_hand[i][1] = t})
    + (IF agari.rongming.tag = "Mingshun" /\ agari.rongming.tiles[1] = t THEN 1 ELSE 0)

\* the match count: 1 for two or three runs from one tile, 2 for four
match_count(agari) ==
    Cardinality({t \in AllTiles : runs_from(agari, t) \in {2, 3}})
    + 2 * Cardinality({t \in AllTiles : runs_from(agari, t) = 4})

\* C19: the matched-run forms go only to hands without exposed groups; the
\* match count is 1 for every tile from which two or three runs start and 2
\* for a tile from which four runs start; a count of 1 gives Yibeikou, 2 gives
\* Liangbeigou, 0 gives nothing, and the count never exceeds 2, so the check
\* never panics, in whatever order the map is iterated.
C19_MatchedRuns ==
    pc \in {"done", "again", "panic"} =>
        \A i \in 1..Len(agaris) : \A keys \in orderings(yibeikou_keys(agaris[i])) :
            LET a     == agaris[i]
                found == check_yibeikou_liangbeigou_iter(a, keys)
            IN /\ match_count(a) <= 2
               /\ ~yibeikou_panics_iter(a, keys)
               /\ found = IF has_exposed_group(a.tilesets) THEN <<>>
                          ELSE IF match_count(a) = 1 THEN <<Form("Yibeikou")>>
                          ELSE IF match_count(a) = 2 THEN <<Form("Liangbeigou")>>
                          ELSE <<>>

\* three equal runs and a fourth run: one match
C19_Witness ==
    /\ pc = "done"
    /\ \E i \in 1..Len(agaris) :
          /\ \E t \in AllTiles : runs_from(agaris[i], t) = 3
          /\ check_yibeikou_liangbeigou(agaris[i]) = <<Form("Yibeikou")>>
          /\ Cardinality(yibeikou_keys(agaris[i])) = 2

\* C20: two calls of judge on the same Tilesets return the same result (none
\* twice, or the same decomposition, wait, forms in the same order and
\* total), whatever the iteration orders of the maps in the two calls.
C20_JudgeDeterministic ==
    pc = "again" => mq = result

\* a second call that returned a hand of two matches over two map keys
C20_Witness ==
    /\ pc = "again"
    /\ result # <<>>
    /\ mq = result
    /\ result[1].agari # <<>>
    /\ Cardinality(yibeikou_keys(result[1].agari[1])) >= 2
    /\ has_form(result[1], "Liangbeigou")

-----------------------------------------------------------------------------
(* Tilesets::new *)

\* tile.rs: wrapping_next
wrapping_next(t) ==
    IF t = North THEN East
    ELSE IF t = Zhong THEN Bai
    ELSE IF kind(t) = "Zipai" THEN t + 1
    ELSE IF order(t) = 9 THEN t - 8
    ELSE t + 1

\* the indicator that makes t a dora
indicator_of(t) == CHOOSE i \in AllTiles : i % 10 # 0 /\ wrapping_next(i) = t

groups_of(ts) == ts.pengs \o ts.chis \o ts.minggangs \o ts.angangs

RECURSIVE occurrences_in_groups(_, _)
occurrences_in_groups(groups, t) ==
    IF groups = <<>> THEN 0
    ELSE target_occurrences(Head(groups), t) + occurrences_in_groups(Tail(groups), t)

\* winning tile, hand, exposed groups, quads and dora indicators
table_occurrences(ts, t) ==
    occurrences(ts, t) + occurrences_in_groups(groups_of(ts), t)
    + Cardinality({i \in 1..Len(ts.doras) : indicator_of(ts.doras[i]) = t})

counted_tiles(ts) == 1 + Len(ts.hand) + 3 * Len(groups_of(ts))

declared_and_called(ts) == ts.context.lizhi # "None" /\ has_exposed_group(ts)

too_many_same(ts) == \E t \in AllTiles : table_occurrences(ts, t) > 4

\* C21: Tilesets::new accepts a candidate only if the winning tile, the hand
\* and three tiles per pon, chi and quad are 14 tiles, no tile occurs more
\* than four times among winning tile, hand, groups and dora indicators, and
\* no ready-hand declaration stands beside a pon, chi or exposed quad;
\* otherwise the error is InvalidNumTiles, InvalidNumSameTiles or
\* BothLizhiFulou, for the condition that failed.
C21_TilesetsNew ==
    pc \notin {"deal", "new"} =>
        /\ pc \in {"judge", "BothLizhiFulou", "InvalidNumSameTiles", "InvalidNumTiles"}
        /\ pc = "judge" <=> /\ counted_tiles(input) = 14
                            /\ ~too_many_same(input)
                            /\ ~declared_and_called(input)
        /\ pc = "InvalidNumTiles" => counted_tiles(input) # 14
        /\ pc = "InvalidNumSameTiles" => too_many_same(input)
        /\ pc = "BothLizhiFulou" => declared_and_called(input)

\* a concealed quad and the indicator of its tile: five of one tile
C21_Witness ==
    /\ pc = "InvalidNumSameTiles"
    /\ counted_tiles(input) = 14
    /\ input.angangs # <<>>
    /\ \E t \in AllTiles :
          /\ table_occurrences(input, t) = 5
          /\ occurrences(input, t) + occurrences_in_groups(groups_of(input), t) = 4

-----------------------------------------------------------------------------
(* tiles.rs: check_chi *)

\* the loop of check_chi from the i-th tile on
RECURSIVE check_chi_from(_, _, _)
check_chi_from(tiles, i, expect) ==
    IF i > Len(tiles) THEN "Ok"
    ELSE IF tiles[i] # expect THEN "InvalidChi"
    ELSE check_chi_from(tiles, i + 1, wrapping_next(expect))

check_chi(tiles) ==
    IF Len(tiles) # 3 THEN "InvalidPeng"
    ELSE check_chi_from(tiles, 1, tiles[1])

MaxChiLen == 4
ChiTiles == {Suozi(1), Suozi(2), Suozi(3), Suozi(8), Suozi(9), Wanzi(1), Wanzi(2),
             East, South, West, North, Bai, Fa, Zhong}

\* every Tiles of at most MaxChiLen tiles, sorted as Tiles::new leaves it
ChiCandidates == UNION {{sorted(f) : f \in [1..n -> ChiTiles]} : n \in 0..MaxChiLen}

InitChi ==
    /\ pc = "chi"
    /\ input = EmptyTilesets
    /\ agaris = <<>> /\ cands = <<>> /\ result = <<>> /\ machis = <<>>
    /\ mq \in ChiCandidates

CheckChi ==
    /\ pc = "chi"
    /\ result' = <<check_chi(mq)>>
    /\ pc' = "checked"
    /\ UNCHANGED <<input, agaris, cands, mq, machis>>

NextChi == CheckChi

SpecChi == InitChi /\ [][NextChi]_vars

\* three tiles of one ranked suit with consecutive ranks
is_run_of_three(tiles) ==
    /\ Len(tiles) = 3
    /\ kind(tiles[1]) # "Zipai"
    /\ \A i \in 1..3 : kind(tiles[i]) = kind(tiles[1])
    /\ order(tiles[2]) = order(tiles[1]) + 1
    /\ order(tiles[3]) = order(tiles[1]) + 2

\* C22: check_chi returns Ok exactly for three tiles with consecutive ranks in
\* one ranked suit, and rejects every other group, three honors in a row and
\* groups of another length included, with InvalidChi.
C22_CheckChi ==
    pc = "checked" =>
        /\ result[1] = "Ok" <=> is_run_of_three(mq)
        /\ result[1] # "Ok" => result[1] = "InvalidChi"

-----------------------------------------------------------------------------
(* The reconciler inside the pipeline *)

holds_last(group, a) == \E k \in 1..Len(group) : group[k] = a.tilesets.last

hand_groups(a) == a.kezis_in_hand \o a.shunzis_in_hand

num_reclassified(a) == IF a.rongming.tag = "None" THEN 0 ELSE 1

num_groups(a) == Len(hand_groups(a)) + num_reclassified(a) + num_melds(a.tilesets)

\* C25 as stated: every decomposition of a win by discard has exactly one
\* group reclassified as exposed.
C25_ExactlyOneReclassified ==
    pc = "done" /\ ~input.is_zimo =>
        \A i \in 1..Len(agaris) : num_reclassified(agaris[i]) = 1

\* C25, amended: a decomposition of a win by discard has one group
\* reclassified when the winning tile lies in a concealed run or triplet of
\* it, and none when the winning tile completes only the pair; a self-drawn
\* win has none; the four groups are kept either way.
C25_AtMostOneReclassified ==
    pc = "done" =>
        \A i \in 1..Len(agaris) :
            LET a == agaris[i]
            IN /\ num_groups(a) = 4
               /\ input.is_zimo => a.rongming.tag = "None"
               /\ ~input.is_zimo =>
                     IF a.rongming.tag = "None"
                     THEN /\ \A n \in 1..Len(hand_groups(a)) : ~holds_last(hand_groups(a)[n], a)
                          /\ a.quetou[1] = input.last
                     ELSE /\ a.rongming.tag \in {"Mingke", "Mingshun"}
                          /\ holds_last(a.rongming.tiles, a)

\* a discard that completes only the pair of a decomposition, and a
\* decomposition of a discard that has its group reclassified
C25_Witness ==
    /\ pc = "done"
    /\ ~input.is_zimo
    /\ \E i \in 1..Len(agaris) :
          /\ agaris[i].rongming.tag = "None"
          /\ agaris[i].machi = "Danqi"
    /\ \E i \in 1..Len(agaris) : agaris[i].rongming.tag = "Mingshun"

-----------------------------------------------------------------------------
(* Fatal checks *)

\* C26: on a Tilesets accepted by Tilesets::new, without pre-declared forms
\* that carry fu, no fatal check fires: not the multiple-of-3 and
\* at-most-4-candidates assertions of the decomposer, not the assertion of the
\* reconciler that the winning tile is the pair, not the 14-tile assertion of
\* the seven-pairs check, not the zero-fu assertion before the fu calculation,
\* not the panic on more than two matched pairs, and not the assertion of
\* Point::rank that a value of at most 4 fan is at most mangan.
C26_NoFatalCheck ==
    pc \in {"done", "panic"} =>
        /\ pc = "done"
        /\ ~enumerate_panics(input)
        /\ ~special_check_qiduizi_panics(input)
        /\ \A i \in 1..Len(agaris) :
              /\ \A keys \in orderings(yibeikou_keys(agaris[i])) :
                    ~yibeikou_panics_iter(agaris[i], keys)
              /\ ~from_agaritilesets_panics(agaris[i], agari_forms(agaris[i]))
        /\ \A i \in 1..Len(cands), leading \in BOOLEAN :
              ~Point_rank_panics(cands[i].total, leading)

\* a hand with a concealed quad, read in several ways, won by discard on a
\* tile of its pair, with a candidate of at most 4 fan
C26_Witness ==
    /\ pc = "done"
    /\ input.angangs # <<>>
    /\ ~input.is_zimo
    /\ Len(agaris) >= 2
    /\ \E i \in 1..Len(agaris) : agaris[i].rongming.tag = "None"
    /\ \E i \in 1..Len(cands) : cands[i].total.fan \in 1..4

\* ---------------------------------------------------------------------
\* Hunlaotou against Hunquandaiyaojiu and Chunquandaiyaojiu
\* ---------------------------------------------------------------------

\* the form list of judge_agari for the i-th decomposition, as a Judge-like record
forms_of(i) == [forms |-> agari_forms(agaris[i])]

\* C27: no candidate form list holds Hunlaotou together with
\* Hunquandaiyaojiu or Chunquandaiyaojiu
C27_HunlaotouExcludesQuandai ==
    pc = "done" =>
        \A i \in 1..Len(agaris) :
            has_form(forms_of(i), "Hunlaotou") =>
                /\ ~has_form(forms_of(i), "Hunquandaiyaojiu")
                /\ ~has_form(forms_of(i), "Chunquandaiyaojiu")

\* a hand of terminals and honors alone is judged Hunlaotou, each of its
\* groups touching a terminal or an honor
C27_Witness ==
    /\ pc = "done"
    /\ \E i \in 1..Len(agaris) :
          /\ has_form(forms_of(i), "Hunlaotou")
          /\ check_hunquandaiyaojiu_chunquandaiyaojiu(agaris[i]) = <<>>
          /\ \A n \in 1..Len(mianzis(agaris[i])) :
                ~is_zhongzhang(mianzis(agaris[i])[n][1])

\* ---------------------------------------------------------------------
\* The fu of a decomposition-based Judge
\* ---------------------------------------------------------------------

\* the Judges built by from_agaritilesets
from_decomposition(j) == j.agari # <<>>

\* C28: the fu of a decomposition-based Judge is 20 exactly when the win is
\* self-drawn and its normalised forms hold Pinghe; otherwise it is at least 30
C28_FuTwentyIffPingheZimo ==
    pc = "done" =>
        \A i \in 1..Len(cands) :
            from_decomposition(cands[i]) =>
                /\ cands[i].total.fu = 20
                      <=> (input.is_zimo /\ has_form(cands[i], "Pinghe"))
                /\ cands[i].total.fu # 20 => cands[i].total.fu >= 30

\* one self-drawn hand read as Pinghe with 20 fu and, by another wait,
\* without Pinghe with 30 fu or more
C28_Witness ==
    /\ pc = "done"
    /\ input.is_zimo
    /\ \E i, k \in 1..Len(cands) :
          /\ from_decomposition(cands[i]) /\ from_decomposition(cands[k])
          /\ has_form(cands[i], "Pinghe") /\ cands[i].total.fu = 20
          /\ ~has_form(cands[k], "Pinghe") /\ cands[k].total.fu >= 30

\* ---------------------------------------------------------------------
\* Sianke on a win by discard
\* ---------------------------------------------------------------------

\* C29: on a win by discard, whenever check_sananke_sianke returns
\* Sianke(flag), the flag is true: the wait is on the pair
C29_RonSiankeIsDanqi ==
    (pc = "done" /\ ~input.is_zimo) =>
        \A i \in 1..Len(agaris) :
            check_sananke_sianke(agaris[i]) \in {<<>>, <<Form("Sananke")>>,
                                                 <<FormB("Sianke", TRUE)>>}

\* a discard completes the pair of four concealed triplets, and the same
\* tiles with the discard completing a triplet keep three of them concealed
C29_Witness ==
    /\ pc = "done"
    /\ ~input.is_zimo
    /\ \E i \in 1..Len(agaris) :
          /\ check_sananke_sianke(agaris[i]) = <<FormB("Sianke", TRUE)>>
          /\ agaris[i].rongming.tag = "None"
          /\ agaris[i].quetou[1] = input.last
          /\ agaris[i].machi = "Danqi"

\* ---------------------------------------------------------------------
\* AgariTilesets::enumerate: one result per decomposition and wait
\* ---------------------------------------------------------------------

MachiKinds == {"Liangmian", "Shuangpeng", "Bianzhang", "Qianzhang", "Danqi", "Yandan"}

\* the number of waits a partition admits for the winning tile: one when it
\* is the pair (Danqi or Yandan), one when it is a triplet, one when it is
\* the middle of a run, one when it is an end of a run (Liangmian or
\* Bianzhang)
num_tags(d, lt) ==
    (IF d.quetou = lt THEN 1 ELSE 0)
    + (IF \E i \in 1..Len(d.kezis) : d.kezis[i] = lt THEN 1 ELSE 0)
    + (IF \E i \in 1..Len(d.shunzis) : d.shunzis[i] + 1 = lt THEN 1 ELSE 0)
    + (IF \E i \in 1..Len(d.shunzis) : d.shunzis[i] = lt \/ d.shunzis[i] + 2 = lt
       THEN 1 ELSE 0)

RECURSIVE sum_tags(_, _)
sum_tags(ds, lt) ==
    IF ds = {} THEN 0
    ELSE LET d == CHOOSE x \in ds : TRUE
         IN num_tags(d, lt) + sum_tags(ds \ {d}, lt)

\* the results of enumerate that read the hand as d
results_for(d) == {i \in 1..Len(agaris) : decomposition_of(agaris[i]) = d}

\* C30: enumerate returns exactly one AgariTilesets per (decomposition, wait):
\* every partition of hand plus winning tile has at least one wait and as
\* many results as waits, each with a wait of its own, and the length of the
\* output is the sum of the wait counts
C30_OnePerDecompositionAndWait ==
    pc = "enumerated" =>
        LET ds == partitions(push(input.hand, input.last), TRUE)
        IN /\ \A i \in 1..Len(agaris) : agaris[i].machi \in MachiKinds
           /\ \A d \in ds :
                 /\ num_tags(d, input.last) >= 1
                 /\ Cardinality(results_for(d)) = num_tags(d, input.last)
                 /\ \A i, k \in results_for(d) :
                       agaris[i].machi = agaris[k].machi => i = k
           /\ Len(agaris) = sum_tags(ds, input.last)

\* a hand with two decompositions, one of them with two waits
C30_Witness ==
    /\ pc = "enumerated"
    /\ Len(agaris) >= 3
    /\ \E d, e \in decompositions :
          /\ d # e
          /\ Cardinality(results_for(d)) = 2
          /\ Cardinality(results_for(e)) = 1

====
